---- MODULE Spec2Model ----
(***************************************************************************)
(* Event data engine of nez-calendar: the frontmatter codec, the event     *)
(* store (CalendarService), the recurrence expander and the Swedish        *)
(* holiday calculator.                                                     *)
(*                                                                         *)
(* Strings are sequences of one-character strings, so that escaping,       *)
(* trimming, quote stripping and coercion act on characters as the code    *)
(* does.  JavaScript values are tagged records (see Str, Bool, Num).       *)
(* Instants are whole hours since 1970-01-01T00:00Z; the host's local      *)
(* time is UTC plus a fixed offset `tz' (no daylight saving).              *)
(***************************************************************************)
EXTENDS Integers, Sequences, FiniteSets, TLC

VARIABLES
  events,        \* CalendarService.events: [key, value] entries in insertion order
  files,         \* the events directory: [name, content] entries in listing order
  enabledTypes,  \* CalendarService.enabledTypes
  showHolidays,  \* CalendarService.showHolidays
  hasAccess,     \* FileSystemService.hasAccess()
  notified,      \* number of notifyListeners() broadcasts so far
  calls,         \* number of service calls made so far
  last,          \* the latest service call: its name, arguments and outcome
  listeners,     \* CalendarService.listeners: the subscribed callbacks in insertion order
  delivered,     \* the listener calls made by the latest service call, in order
  unreadable,    \* names of the files whose read fails with an I/O error
  faults,        \* the directory-handle calls that fail with an I/O error
  inflight,      \* updateEvent calls caught between their awaits: position and locals
  tz,            \* host UTC offset in hours
  pc,            \* position of a pure-function run: "input" or "done"
  input,         \* argument of the pure function being run
  output         \* its result

storeVars ==
  <<events, files, enabledTypes, showHolidays, hasAccess, notified, calls, last, listeners,
    delivered, unreadable, faults, inflight>>
pureVars == <<pc, input, output>>
vars == <<storeVars, tz, pureVars>>

----------------------------------------------------------------------------
(* JavaScript values *)

Str(s) == [t |-> "str", s |-> s, b |-> FALSE, n |-> 0]
Bool(b) == [t |-> "bool", s |-> <<>>, b |-> b, n |-> 0]
Num(n) == [t |-> "num", s |-> <<>>, b |-> FALSE, n |-> n]
Null == [t |-> "null", s |-> <<>>, b |-> FALSE, n |-> 0]
Undefined == [t |-> "undef", s |-> <<>>, b |-> FALSE, n |-> 0]

\* ToBoolean: "", 0, false, null and undefined are falsy
Truthy(v) ==
  CASE v.t = "str" -> v.s # <<>>
    [] v.t = "bool" -> v.b
    [] v.t = "num" -> v.n # 0
    [] OTHER -> FALSE

\* a || d
Or(v, d) == IF Truthy(v) THEN v ELSE d

Min(S) == CHOOSE x \in S : \A y \in S : x <= y
Max(S) == CHOOSE x \in S : \A y \in S : x >= y

DigitChars == <<"0", "1", "2", "3", "4", "5", "6", "7", "8", "9">>
Digits == {DigitChars[i] : i \in 1..10}
DigitVal(c) == (CHOOSE i \in 1..10 : DigitChars[i] = c) - 1

\* /^\d+$/.test(s)
IsDigits(s) == Len(s) > 0 /\ \A i \in 1..Len(s) : s[i] \in Digits

RECURSIVE parseInt(_)
parseInt(s) == IF s = <<>> THEN 0 ELSE 10 * parseInt(SubSeq(s, 1, Len(s) - 1)) + DigitVal(s[Len(s)])

RECURSIVE NatToString(_)
NatToString(n) ==
  IF n < 10 THEN <<DigitChars[n + 1]>> ELSE NatToString(n \div 10) \o <<DigitChars[(n % 10) + 1]>>

NumToString(n) == IF n < 0 THEN <<"-">> \o NatToString(0 - n) ELSE NatToString(n)

\* String(n).padStart(w, '0')
RECURSIVE padStart(_, _)
padStart(s, w) == IF Len(s) >= w THEN s ELSE padStart(<<"0">> \o s, w)

\* `${v}`
TemplateString(v) ==
  CASE v.t = "str" -> v.s
    [] v.t = "bool" -> IF v.b THEN <<"t", "r", "u", "e">> ELSE <<"f", "a", "l", "s", "e">>
    [] v.t = "num" -> NumToString(v.n)
    [] v.t = "null" -> <<"n", "u", "l", "l">>
    [] OTHER -> <<"u", "n", "d", "e", "f", "i", "n", "e", "d">>

IsWhite(c) == c \in {" ", "\n", "\t", "\r"}

\* String.prototype.trim
trim(s) ==
  LET keep == {i \in 1..Len(s) : ~IsWhite(s[i])}
  IN IF keep = {} THEN <<>> ELSE SubSeq(s, Min(keep), Max(keep))

\* String.prototype.indexOf for one character, 0-based, -1 when absent
indexOf(s, c) ==
  LET at == {i \in 1..Len(s) : s[i] = c}
  IN IF at = {} THEN -1 ELSE Min(at) - 1

\* String.prototype.split for a one-character separator
RECURSIVE split(_, _)
split(s, c) ==
  LET i == indexOf(s, c)
  IN IF i < 0 THEN <<s>> ELSE <<SubSeq(s, 1, i)>> \o split(SubSeq(s, i + 2, Len(s)), c)

\* Array.prototype.join('\n')
RECURSIVE join(_)
join(lines) ==
  IF Len(lines) = 0 THEN <<>>
  ELSE IF Len(lines) = 1 THEN lines[1]
  ELSE lines[1] \o <<"\n">> \o join(Tail(lines))

startsWith(s, p) == Len(s) >= Len(p) /\ SubSeq(s, 1, Len(p)) = p
endsWith(s, p) == Len(s) >= Len(p) /\ SubSeq(s, Len(s) - Len(p) + 1, Len(s)) = p

\* s.slice(1, -1)
slice1(s) == SubSeq(s, 2, Len(s) - 1)

LowerChars == <<"a", "b", "c", "d", "e", "f", "g", "h", "i", "j", "k", "l", "m",
               "n", "o", "p", "q", "r", "s", "t", "u", "v", "w", "x", "y", "z">>
UpperChars == <<"A", "B", "C", "D", "E", "F", "G", "H", "I", "J", "K", "L", "M",
               "N", "O", "P", "Q", "R", "S", "T", "U", "V", "W", "X", "Y", "Z">>
Lower == {LowerChars[i] : i \in 1..26}

toLowerCaseChar(c) ==
  IF \E i \in 1..26 : UpperChars[i] = c
  THEN LowerChars[CHOOSE i \in 1..26 : UpperChars[i] = c]
  ELSE c

toLowerCase(s) == [i \in 1..Len(s) |-> toLowerCaseChar(s[i])]

----------------------------------------------------------------------------
(* Objects: records from field names to values; an absent key reads undefined *)

Get(o, k) == IF k \in DOMAIN o THEN o[k] ELSE Undefined

\* { ...a, ...b }
Spread(a, b) == [k \in DOMAIN a \cup DOMAIN b |-> IF k \in DOMAIN b THEN b[k] ELSE a[k]]

S_personal == <<"p", "e", "r", "s", "o", "n", "a", "l">>
S_Untitled == <<"U", "n", "t", "i", "t", "l", "e", "d">>
S_none == <<"n", "o", "n", "e">>
S_event == <<"e", "v", "e", "n", "t">>
S_md == <<".", "m", "d">>
S_true == <<"t", "r", "u", "e">>
S_false == <<"f", "a", "l", "s", "e">>
S_dashes == <<"-", "-", "-">>

S_work == <<"w", "o", "r", "k">>
S_birthday == <<"b", "i", "r", "t", "h", "d", "a", "y">>
S_holiday == <<"h", "o", "l", "i", "d", "a", "y">>
S_other == <<"o", "t", "h", "e", "r">>
EVENT_TYPES == {S_personal, S_work, S_birthday, S_holiday, S_other}

\* EVENT_TYPES[type].color, by the type's name
TypeColor(type) ==
  CASE type = S_personal -> <<"#", "8", "b", "5", "c", "f", "6">>
    [] type = S_work -> <<"#", "3", "b", "8", "2", "f", "6">>
    [] type = S_birthday -> <<"#", "e", "c", "4", "8", "9", "9">>
    [] type = S_holiday -> <<"#", "2", "2", "c", "5", "5", "e">>
    [] type = S_other -> <<"#", "6", "b", "7", "2", "8", "0">>


----------------------------------------------------------------------------
(* Frontmatter codec *)

\* .replace(/[^a-z0-9]+/g, '-')
RECURSIVE collapseNonAlnum(_)
collapseNonAlnum(s) ==
  IF s = <<>> THEN <<>>
  ELSE IF s[1] \in Lower \cup Digits THEN <<s[1]>> \o collapseNonAlnum(Tail(s))
  ELSE LET rest == collapseNonAlnum(Tail(s))
       IN IF Len(s) > 1 /\ s[2] \notin Lower \cup Digits THEN rest ELSE <<"-">> \o rest

\* .replace(/^-|-$/g, '')
stripHyphens(s) ==
  LET a == IF Len(s) > 0 /\ s[1] = "-" THEN Tail(s) ELSE s
  IN IF Len(a) > 0 /\ a[Len(a)] = "-" THEN SubSeq(a, 1, Len(a) - 1) ELSE a

SlugMax == 50

\* event.title.toLowerCase() throws a TypeError unless title is a string
generateFilenameThrows(event) == Get(event, "title").t # "str"

generateFilename(event) ==
  LET cut == stripHyphens(collapseNonAlnum(toLowerCase(Get(event, "title").s)))
      sub == SubSeq(cut, 1, IF Len(cut) < SlugMax THEN Len(cut) ELSE SlugMax)
      slug == IF sub = <<>> THEN S_event ELSE sub
  IN TemplateString(Get(event, "startDate")) \o <<"-">> \o slug \o S_md

\* .replace(/"/g, '\\"')
RECURSIVE escapeQuotes(_)
escapeQuotes(s) ==
  IF s = <<>> THEN <<>>
  ELSE (IF s[1] = "\"" THEN <<"\\", "\"">> ELSE <<s[1]>>) \o escapeQuotes(Tail(s))

quoted(key, chars) == key \o <<":", " ", "\"">> \o chars \o <<"\"">>
bare(key, chars) == key \o <<":", " ">> \o chars

K_id == <<"i", "d">>
K_title == <<"t", "i", "t", "l", "e">>
K_startDate == <<"s", "t", "a", "r", "t", "D", "a", "t", "e">>
K_endDate == <<"e", "n", "d", "D", "a", "t", "e">>
K_allDay == <<"a", "l", "l", "D", "a", "y">>
K_startTime == <<"s", "t", "a", "r", "t", "T", "i", "m", "e">>
K_endTime == <<"e", "n", "d", "T", "i", "m", "e">>
K_color == <<"c", "o", "l", "o", "r">>
K_type == <<"t", "y", "p", "e">>
K_recurrence == <<"r", "e", "c", "u", "r", "r", "e", "n", "c", "e">>
K_recurrenceEnd == <<"r", "e", "c", "u", "r", "r", "e", "n", "c", "e", "E", "n", "d">>
K_recurrenceInterval == <<"r", "e", "c", "u", "r", "r", "e", "n", "c", "e", "I", "n", "t", "e", "r", "v", "a", "l">>

\* ToNumber(v) > 1, for the values an interval can hold
GreaterThanOne(v) ==
  CASE v.t = "num" -> v.n > 1
    [] v.t = "str" -> IsDigits(v.s) /\ parseInt(v.s) > 1
    [] OTHER -> FALSE

\* event.title.replace throws a TypeError unless title is a string
serializeEventThrows(event) == Get(event, "title").t # "str"

serializeEvent(event) ==
  LET endDate == Get(event, "endDate")
      allDay == Get(event, "allDay")
      startTime == Get(event, "startTime")
      endTime == Get(event, "endTime")
      recurrence == Get(event, "recurrence")
      description == Get(event, "description")
      lines ==
        <<S_dashes,
          quoted(K_id, TemplateString(Get(event, "id"))),
          quoted(K_title, escapeQuotes(Get(event, "title").s)),
          quoted(K_startDate, TemplateString(Get(event, "startDate")))>>
        \o (IF Truthy(endDate) /\ endDate # Get(event, "startDate")
            THEN <<quoted(K_endDate, TemplateString(endDate))>> ELSE <<>>)
        \o <<bare(K_allDay, TemplateString(allDay))>>
        \o (IF ~Truthy(allDay) /\ Truthy(startTime)
            THEN <<quoted(K_startTime, TemplateString(startTime))>>
                 \o (IF Truthy(endTime) THEN <<quoted(K_endTime, TemplateString(endTime))>> ELSE <<>>)
            ELSE <<>>)
        \o <<quoted(K_color, TemplateString(Get(event, "color"))),
             quoted(K_type, TemplateString(Or(Get(event, "type"), Str(S_personal))))>>
        \o (IF Truthy(recurrence) /\ recurrence # Str(S_none)
            THEN <<quoted(K_recurrence, TemplateString(recurrence))>>
                 \o (IF Truthy(Get(event, "recurrenceEnd"))
                     THEN <<quoted(K_recurrenceEnd, TemplateString(Get(event, "recurrenceEnd")))>>
                     ELSE <<>>)
                 \o (IF Truthy(Get(event, "recurrenceInterval"))
                        /\ GreaterThanOne(Get(event, "recurrenceInterval"))
                     THEN <<bare(K_recurrenceInterval, TemplateString(Get(event, "recurrenceInterval")))>>
                     ELSE <<>>)
            ELSE <<>>)
        \o <<S_dashes, <<>>>>
        \o (IF Truthy(description) THEN <<TemplateString(description)>> ELSE <<>>)
  IN join(lines)

\* one frontmatter line's value: quotes stripped, then booleans and numbers coerced
parseValue(raw) ==
  LET v0 == trim(raw)
      v == IF (startsWith(v0, <<"\"">>) /\ endsWith(v0, <<"\"">>))
              \/ (startsWith(v0, <<"'">>) /\ endsWith(v0, <<"'">>))
           THEN slice1(v0) ELSE v0
  IN IF v = S_true THEN Bool(TRUE)
     ELSE IF v = S_false THEN Bool(FALSE)
     ELSE IF IsDigits(v) THEN Num(parseInt(v))
     ELSE Str(v)

\* the loop over the frontmatter lines; a later line overwrites an earlier key
RECURSIVE parseLines(_)
parseLines(lines) ==
  IF lines = <<>> THEN <<>>
  ELSE LET line == lines[Len(lines)]
           before == parseLines(SubSeq(lines, 1, Len(lines) - 1))
           colonIndex == indexOf(line, ":")
       IN IF colonIndex > 0
          THEN (trim(SubSeq(line, 1, colonIndex)) :> parseValue(SubSeq(line, colonIndex + 2, Len(line))))
               @@ before
          ELSE before

\* /^---\n([\s\S]*?)\n---\n?([\s\S]*)$/ : where the closing "\n---" starts, 0 if no match
frontmatterClose(content) ==
  LET at == {p \in 5..(Len(content) - 3) : SubSeq(content, p, p + 3) = <<"\n">> \o S_dashes}
  IN IF startsWith(content, S_dashes \o <<"\n">>) /\ at # {} THEN Min(at) ELSE 0

parseMarkdown(content) ==
  LET p == frontmatterClose(content)
      q == IF p + 4 <= Len(content) /\ content[p + 4] = "\n" THEN p + 5 ELSE p + 4
  IN IF p = 0
     THEN [frontmatter |-> <<>>, body |-> content]
     ELSE [frontmatter |-> parseLines(split(SubSeq(content, 5, p - 1), "\n")),
           body |-> trim(SubSeq(content, q, Len(content)))]

COLOR_DEFAULT == <<"#", "8", "b", "5", "c", "f", "6">>

\* the event object loadAllEvents builds from one decoded file
loadedEvent(frontmatter, body, filename, freshId) ==
  [id |-> Or(Get(frontmatter, K_id), Str(freshId)),
   title |-> Or(Get(frontmatter, K_title), Str(S_Untitled)),
   startDate |-> Get(frontmatter, K_startDate),
   endDate |-> Or(Get(frontmatter, K_endDate), Get(frontmatter, K_startDate)),
   startTime |-> Or(Get(frontmatter, K_startTime), Null),
   endTime |-> Or(Get(frontmatter, K_endTime), Null),
   allDay |-> Bool(Get(frontmatter, K_allDay) # Bool(FALSE) /\ ~Truthy(Get(frontmatter, K_startTime))),
   color |-> Or(Get(frontmatter, K_color), Str(COLOR_DEFAULT)),
   type |-> Or(Get(frontmatter, K_type), Str(S_personal)),
   recurrence |-> Or(Get(frontmatter, K_recurrence), Str(S_none)),
   recurrenceEnd |-> Or(Get(frontmatter, K_recurrenceEnd), Null),
   recurrenceInterval |-> Or(Get(frontmatter, K_recurrenceInterval), Num(1)),
   description |-> Str(body),
   _filename |-> Str(filename)]

----------------------------------------------------------------------------
(* Date: an instant in hours since the epoch, or Invalid Date *)

DateAt(t) == [valid |-> TRUE, t |-> t]
InvalidDate == [valid |-> FALSE, t |-> 0]

\* <=, >= on Date objects compare time values; any comparison with NaN is false
DateLE(a, b) == a.valid /\ b.valid /\ a.t <= b.t
DateGE(a, b) == a.valid /\ b.valid /\ a.t >= b.t

IsLeap(y) == (y % 4 = 0 /\ y % 100 # 0) \/ y % 400 = 0

DaysInMonth(y, m) ==
  IF m = 2 THEN (IF IsLeap(y) THEN 29 ELSE 28)
  ELSE IF m \in {4, 6, 9, 11} THEN 30 ELSE 31

\* MakeDay: day number of year y, 0-based month index m0 (any integer), day d (any integer)
MakeDay(y, m0, d) ==
  LET ym == y + (m0 \div 12)
      mn == (m0 % 12) + 1
      yy == IF mn <= 2 THEN ym - 1 ELSE ym
      era == yy \div 400
      yoe == yy - era * 400
      doy == (153 * (IF mn > 2 THEN mn - 3 ELSE mn + 9) + 2) \div 5
      doe == yoe * 365 + (yoe \div 4) - (yoe \div 100) + doy
  IN era * 146097 + doe - 719468 + (d - 1)

\* year, month (1-based) and day of month of a day number
Civil(z) ==
  LET zz == z + 719468
      era == zz \div 146097
      doe == zz - era * 146097
      yoe == (doe - (doe \div 1460) + (doe \div 36524) - (doe \div 146096)) \div 365
      doy == doe - (365 * yoe + (yoe \div 4) - (yoe \div 100))
      mp == (5 * doy + 2) \div 153
      d == doy - ((153 * mp + 2) \div 5) + 1
      m == IF mp < 10 THEN mp + 3 ELSE mp - 9
  IN [y |-> yoe + era * 400 + (IF m <= 2 THEN 1 ELSE 0), m |-> m, d |-> d]

\* new Date("YYYY-MM-DD"): a date-only string is read as midnight UTC
IsDateString(s) ==
  /\ Len(s) = 10
  /\ s[5] = "-" /\ s[8] = "-"
  /\ \A i \in {1, 2, 3, 4, 6, 7, 9, 10} : s[i] \in Digits
  /\ LET y == parseInt(SubSeq(s, 1, 4))
         m == parseInt(SubSeq(s, 6, 7))
         d == parseInt(SubSeq(s, 9, 10))
     IN m \in 1..12 /\ d >= 1 /\ d <= DaysInMonth(y, m)

NewDate(v) ==
  IF v.t = "str" /\ IsDateString(v.s)
  THEN DateAt(24 * MakeDay(parseInt(SubSeq(v.s, 1, 4)), parseInt(SubSeq(v.s, 6, 7)) - 1,
                           parseInt(SubSeq(v.s, 9, 10))))
  ELSE InvalidDate

\* new Date(year, monthIndex, day): midnight local time; years 0..99 mean 1900..1999
NewLocalDate(off, year, monthIndex, day) ==
  DateAt(24 * MakeDay(IF year \in 0..99 THEN 1900 + year ELSE year, monthIndex, day) - off)

\* local calendar fields of an instant on a host `off' hours ahead of UTC
LocalDay(off, date) == (date.t + off) \div 24
LocalHour(off, date) == (date.t + off) % 24
getFullYear(off, date) == Civil(LocalDay(off, date)).y
getMonth(off, date) == Civil(LocalDay(off, date)).m - 1
getDate(off, date) == Civil(LocalDay(off, date)).d
\* 0 = Sunday; 1970-01-01 was a Thursday
getDay(off, date) == (LocalDay(off, date) + 4) % 7

FromLocal(off, y, m0, d, date) == DateAt(24 * MakeDay(y, m0, d) + LocalHour(off, date) - off)

setDate(off, date, d) == FromLocal(off, getFullYear(off, date), getMonth(off, date), d, date)
setMonth(off, date, m0) == FromLocal(off, getFullYear(off, date), m0, getDate(off, date), date)
setFullYear(off, date, y) == FromLocal(off, y, getMonth(off, date), getDate(off, date), date)

pad2(n) == padStart(NatToString(n), 2)

\* formatDate: local year-month-day, month and day padded to two digits
\* (the getters of an Invalid Date are NaN)
formatDate(off, date) ==
  IF date.valid
  THEN NatToString(getFullYear(off, date)) \o <<"-">> \o pad2(getMonth(off, date) + 1)
         \o <<"-">> \o pad2(getDate(off, date))
  ELSE <<"N", "a", "N", "-", "N", "a", "N", "-", "N", "a", "N">>

\* the date string of a calendar day, for inputs
Ymd(y, m, d) == padStart(NatToString(y), 4) \o <<"-">> \o pad2(m) \o <<"-">> \o pad2(d)

----------------------------------------------------------------------------
(* Swedish holidays *)

\* the algorithm with the month used unshifted as a 0-based month index
calculateEasterMonthIndex(off, year) ==
  LET a == year % 19
      b == year \div 100
      c == year % 100
      d == b \div 4
      e == b % 4
      f == (b + 8) \div 25
      g == (b - f + 1) \div 3
      h == (19 * a + b - d - g + 15) % 30
      i == c \div 4
      k == c % 4
      l == (32 + 2 * e + 2 * i - h - k) % 7
      m == (a + 11 * h + 22 * l) \div 451
      month == (h + l - 7 * m + 114) \div 31
      day == ((h + l - 7 * m + 114) % 31) + 1
  IN NewLocalDate(off, year, month, day)

\* Anonymous Gregorian algorithm: Easter Sunday as a local Date
calculateEaster(off, year) ==
  LET a == year % 19
      b == year \div 100
      c == year % 100
      d == b \div 4
      e == b % 4
      f == (b + 8) \div 25
      g == (b - f + 1) \div 3
      h == (19 * a + b - d - g + 15) % 30
      i == c \div 4
      k == c % 4
      l == (32 + 2 * e + 2 * i - h - k) % 7
      m == (a + 11 * h + 22 * l) \div 451
      month == (h + l - 7 * m + 114) \div 31
      day == ((h + l - 7 * m + 114) % 31) + 1
  IN NewLocalDate(off, year, month - 1, day)

addDays(off, date, days) == setDate(off, date, getDate(off, date) + days)

\* the scan excluding its last day, as a comparison with < would make it
RECURSIVE findSaturdayBefore(_, _, _)
findSaturdayBefore(off, startDate, endDate) ==
  IF ~(startDate.t < endDate.t) THEN [found |-> FALSE, date |-> InvalidDate]
  ELSE IF getDay(off, startDate) = 6 THEN [found |-> TRUE, date |-> startDate]
  ELSE findSaturdayBefore(off, setDate(off, startDate, getDate(off, startDate) + 1), endDate)

\* first Saturday from startDate through endDate, or null
RECURSIVE findSaturdayBetween(_, _, _)
findSaturdayBetween(off, startDate, endDate) ==
  IF ~DateLE(startDate, endDate) THEN [found |-> FALSE, date |-> InvalidDate]
  ELSE IF getDay(off, startDate) = 6 THEN [found |-> TRUE, date |-> startDate]
  ELSE findSaturdayBetween(off, setDate(off, startDate, getDate(off, startDate) + 1), endDate)

CharRank(c) == IF c \in Digits THEN DigitVal(c) + 1 ELSE 0

\* a.localeCompare(b) < 0, for strings of digits and hyphens
RECURSIVE StringLess(_, _)
StringLess(a, b) ==
  IF b = <<>> THEN FALSE
  ELSE IF a = <<>> THEN TRUE
  ELSE IF a[1] = b[1] THEN StringLess(Tail(a), Tail(b))
  ELSE CharRank(a[1]) < CharRank(b[1])

\* Array.prototype.sort by date: stable insertion of h into a sorted list
RECURSIVE insertByDate(_, _)
insertByDate(sorted, h) ==
  IF sorted = <<>> THEN <<h>>
  ELSE IF StringLess(h.date, sorted[1].date) THEN <<h>> \o sorted
  ELSE <<sorted[1]>> \o insertByDate(Tail(sorted), h)

RECURSIVE sortByDate(_)
sortByDate(list) ==
  IF list = <<>> THEN <<>>
  ELSE insertByDate(sortByDate(SubSeq(list, 1, Len(list) - 1)), list[Len(list)])

Holiday(date, name) == [date |-> date, name |-> name]

getSwedishHolidays(off, year) ==
  LET y == NumToString(year)
      fixed(md) == y \o md
      easter == calculateEaster(off, year)
      midsummer == findSaturdayBetween(off, NewLocalDate(off, year, 5, 20), NewLocalDate(off, year, 5, 26))
      allSaints == findSaturdayBetween(off, NewLocalDate(off, year, 9, 31), NewLocalDate(off, year, 10, 6))
      holidays ==
        <<Holiday(fixed(<<"-", "0", "1", "-", "0", "1">>), "New Year's Day"),
          Holiday(fixed(<<"-", "0", "1", "-", "0", "6">>), "Epiphany"),
          Holiday(fixed(<<"-", "0", "5", "-", "0", "1">>), "May Day"),
          Holiday(fixed(<<"-", "0", "6", "-", "0", "6">>), "National Day of Sweden"),
          Holiday(fixed(<<"-", "1", "2", "-", "2", "5">>), "Christmas Day"),
          Holiday(fixed(<<"-", "1", "2", "-", "2", "6">>), "Second Day of Christmas"),
          Holiday(formatDate(off, addDays(off, easter, -2)), "Good Friday"),
          Holiday(formatDate(off, easter), "Easter Sunday"),
          Holiday(formatDate(off, addDays(off, easter, 1)), "Easter Monday"),
          Holiday(formatDate(off, addDays(off, easter, 39)), "Ascension Day"),
          Holiday(formatDate(off, addDays(off, easter, 49)), "Whit Sunday")>>
        \o (IF midsummer.found
            THEN <<Holiday(formatDate(off, midsummer.date), "Midsummer Day")>> ELSE <<>>)
        \o (IF allSaints.found
            THEN <<Holiday(formatDate(off, allSaints.date), "All Saints' Day")>> ELSE <<>>)
  IN sortByDate(holidays)

----------------------------------------------------------------------------
(* Recurrence expander *)

S_daily == <<"d", "a", "i", "l", "y">>
S_weekly == <<"w", "e", "e", "k", "l", "y">>
S_monthly == <<"m", "o", "n", "t", "h", "l", "y">>
S_yearly == <<"y", "e", "a", "r", "l", "y">>

maxInstances == 365

\* new Date(current.getTime() + duration)
PlusDuration(current, duration) ==
  IF current.valid /\ duration.valid THEN DateAt(current.t + duration.t) ELSE InvalidDate

\* the switch that advances the cursor by one period
advance(off, current, recurrence, interval) ==
  CASE recurrence = Str(S_daily) -> setDate(off, current, getDate(off, current) + interval)
    [] recurrence = Str(S_weekly) -> setDate(off, current, getDate(off, current) + 7 * interval)
    [] recurrence = Str(S_monthly) -> setMonth(off, current, getMonth(off, current) + interval)
    [] recurrence = Str(S_yearly) -> setFullYear(off, current, getFullYear(off, current) + interval)
    [] OTHER -> current

Recognised(recurrence) ==
  recurrence \in {Str(S_daily), Str(S_weekly), Str(S_monthly), Str(S_yearly)}

instanceOf(off, event, current, duration) ==
  Spread(event,
         [id |-> Str(TemplateString(Get(event, "id")) \o <<"_">> \o formatDate(off, current)),
          startDate |-> Str(formatDate(off, current)),
          endDate |-> Str(formatDate(off, PlusDuration(current, duration))),
          _isRecurrenceInstance |-> Bool(TRUE),
          _originalId |-> Get(event, "id")])

\* passes after which a loop is taken not to end
MaxPasses == 1000

loopCondNoCap(c, st) ==
  /\ DateLE(st.current, c.end)
  /\ DateLE(st.current, c.recurrenceEnd)
\* the loop condition, over the loop's variables st and the values c fixed before it
loopCond(c, st) ==
  /\ DateLE(st.current, c.end)
  /\ DateLE(st.current, c.recurrenceEnd)
  /\ st.instanceCount < maxInstances

\* one pass through the loop body
loopBody(c, st) ==
  LET emit == DateGE(st.current, c.start) \/ DateGE(PlusDuration(st.current, c.duration), c.start)
      count == IF Recognised(Get(c.event, "recurrence")) THEN st.instanceCount ELSE maxInstances
  IN [current |-> advance(c.off, st.current, Get(c.event, "recurrence"), c.interval),
      instanceCount |-> count + 1,
      passes |-> st.passes + 1,
      instances |-> IF emit
                    THEN Append(st.instances, instanceOf(c.off, c.event, st.current, c.duration))
                    ELSE st.instances]

\* the loop takes another pass (evaluation gives up after MaxPasses)
loopRuns(c, st) == loopCond(c, st) /\ st.passes < MaxPasses

\* up to n passes, stopping when the condition fails
RECURSIVE runSteps(_, _, _)
runSteps(c, st, n) ==
  IF ~loopRuns(c, st) THEN st
  ELSE IF n = 1 THEN loopBody(c, st)
  ELSE CHOOSE r \in {runSteps(c, half, n - (n \div 2)) : half \in {runSteps(c, st, n \div 2)}} : TRUE

\* while (cond) body, run in doubling batches (a shallow evaluation of the same loop)
RECURSIVE whileLoop(_, _, _)
whileLoop(c, st, n) ==
  CHOOSE r \in {IF loopRuns(c, batch) THEN whileLoop(c, batch, 2 * n) ELSE batch :
                  batch \in {runSteps(c, st, n)}} : TRUE

\* the while loop over one recurring event; the result also reports where the loop stopped
expandLoop(off, event, start, end, recurrenceEnd, duration, interval, eventStart) ==
  LET c == [off |-> off, event |-> event, start |-> start, end |-> end,
            recurrenceEnd |-> recurrenceEnd, duration |-> duration, interval |-> interval]
      r == whileLoop(c, [current |-> eventStart, instanceCount |-> 0, passes |-> 0,
                           instances |-> <<>>], 1)
  IN [instances |-> r.instances, current |-> r.current, instanceCount |-> r.instanceCount,
      passes |-> r.passes, end |-> end, recurrenceEnd |-> recurrenceEnd]

IsRecurringAnyValue(event) == Truthy(Get(event, "recurrence"))
\* the event takes the recurring branch of the for loop
IsRecurring(event) == Truthy(Get(event, "recurrence")) /\ Get(event, "recurrence") # Str(S_none)

\* the body of the for loop for one recurring event
expandOne(off, event, startDate, endDate) ==
  LET start == NewDate(startDate)
      end == NewDate(endDate)
      eventStart == NewDate(Get(event, "startDate"))
      eventEnd == IF Truthy(Get(event, "endDate")) THEN NewDate(Get(event, "endDate"))
                  ELSE NewDate(Get(event, "startDate"))
      duration == IF eventEnd.valid /\ eventStart.valid
                  THEN DateAt(eventEnd.t - eventStart.t) ELSE InvalidDate
      recurrenceEnd == IF Truthy(Get(event, "recurrenceEnd"))
                       THEN NewDate(Get(event, "recurrenceEnd")) ELSE end
      interval == Or(Get(event, "recurrenceInterval"), Num(1)).n
  IN expandLoop(off, event, start, end, recurrenceEnd, duration, interval, eventStart)

\* the for loop over the events, keeping for each one what its iteration produced
RECURSIVE expandTrace(_, _, _, _)
expandTrace(off, evs, startDate, endDate) ==
  IF evs = <<>> THEN <<>>
  ELSE <<IF IsRecurring(evs[1])
         THEN [recurring |-> TRUE, loop |-> expandOne(off, evs[1], startDate, endDate)]
         ELSE [recurring |-> FALSE,
               loop |-> [instances |-> <<evs[1]>>, current |-> InvalidDate, instanceCount |-> 0,
                         passes |-> 0, end |-> InvalidDate, recurrenceEnd |-> InvalidDate]]>>
       \o expandTrace(off, Tail(evs), startDate, endDate)

RECURSIVE Flatten(_)
Flatten(trace) ==
  IF trace = <<>> THEN <<>> ELSE trace[1].loop.instances \o Flatten(Tail(trace))

expandRecurringEvents(off, evs, startDate, endDate) ==
  Flatten(expandTrace(off, evs, startDate, endDate))

----------------------------------------------------------------------------
(* State after construction of the services *)

HostOffsets == {-5, 0, 1}

NoCall ==
  [op |-> "none", id |-> Null, arg |-> Null, threw |-> FALSE, error |-> "none",
   result |-> Undefined, list |-> <<>>]

StoreInit ==
  /\ events = <<>>
  /\ enabledTypes = EVENT_TYPES
  /\ showHolidays = TRUE
  /\ notified = 0
  /\ listeners = <<>>
  /\ delivered = <<>>
  /\ unreadable = {}
  /\ faults = {}
  /\ inflight = <<>>
  /\ calls = 0
  /\ last = NoCall

PureIdle == pc = "idle" /\ input = <<>> /\ output = <<>>

----------------------------------------------------------------------------
(* Runs of expandRecurringEvents on enumerated inputs *)

\* the date n days after date string s
DatePlus(s, n) == formatDate(0, DateAt(NewDate(Str(s)).t + 24 * n))

ExpandEvent(id, startDate, span, recurrence, recurrenceEnd, interval) ==
  [id |-> Str(id), title |-> Str(<<"T">>), startDate |-> Str(startDate),
   endDate |-> Str(DatePlus(startDate, span)), startTime |-> Null, endTime |-> Null,
   allDay |-> Bool(TRUE), color |-> Str(COLOR_DEFAULT), type |-> Str(S_personal),
   recurrence |-> recurrence, recurrenceEnd |-> recurrenceEnd,
   recurrenceInterval |-> interval, description |-> Str(<<>>)]

ExpandRanges ==
  {<<Ymd(2026, 1, 1), Ymd(2026, 1, 10)>>, <<Ymd(2026, 1, 1), Ymd(2026, 1, 31)>>,
   <<Ymd(2026, 1, 1), Ymd(2026, 2, 28)>>, <<Ymd(2026, 1, 10), Ymd(2026, 1, 20)>>}

ExpandShort ==
  {[events |-> <<ExpandEvent(<<"a">>, s, span, Str(rec), rend, k)>>,
    startDate |-> Str(r[1]), endDate |-> Str(r[2])] :
     s \in {Ymd(2026, 1, 1), Ymd(2026, 1, 5)},
     span \in {0, 2},
     rec \in {S_daily, S_weekly, S_monthly, S_yearly, S_none, <<"h", "o", "u", "r", "l", "y">>},
     rend \in {Null, Str(Ymd(2026, 1, 5)), Str(Ymd(2026, 1, 26)), Str(Ymd(2026, 2, 28))},
     k \in {Undefined, Num(2)},
     r \in ExpandRanges}

\* runs long enough to meet the safety limit
ExpandLong ==
  {[events |-> <<ExpandEvent(<<"a">>, Ymd(2026, 1, 1), 0, Str(S_daily), Null, Num(1))>>,
    startDate |-> Str(Ymd(2026, 1, 1)), endDate |-> Str(Ymd(2027, 6, 30))],
   [events |-> <<ExpandEvent(<<"a">>, Ymd(2026, 1, 1), 0, Str(S_daily), Str(Ymd(2027, 3, 31)), Num(1))>>,
    startDate |-> Str(Ymd(2026, 1, 1)), endDate |-> Str(Ymd(2027, 6, 30))],
   [events |-> <<ExpandEvent(<<"a">>, Ymd(2025, 1, 1), 0, Str(S_daily), Null, Num(1))>>,
    startDate |-> Str(Ymd(2026, 3, 1)), endDate |-> Str(Ymd(2026, 3, 31))]}

\* lists that mix events without recurrence (value 'none', null, or no such field) with
\* a recurring one, inside and outside the queried range
ExpandMixed ==
  LET n1 == ExpandEvent(<<"n", "1">>, Ymd(2026, 1, 3), 0, Str(S_none), Null, Undefined)
      n2 == ExpandEvent(<<"n", "2">>, Ymd(2025, 6, 1), 1, Null, Null, Num(2))
      n3 == [f \in DOMAIN n1 \ {"recurrence"} |->
               IF f = "id" THEN Str(<<"n", "3">>) ELSE n1[f]]
      r == ExpandEvent(<<"r">>, Ymd(2026, 1, 5), 0, Str(S_daily), Null, Num(1))
  IN {[events |-> list, startDate |-> Str(range[1]), endDate |-> Str(range[2])] :
        list \in {<<n1, r, n2>>, <<r, n3, n1>>, <<n2, n1, n3>>, <<n3, r>>, <<n2>>, <<r, n2, n3>>},
        range \in ExpandRanges}

\* misconfigured events: an interval of zero or below, an unknown recurrence, with and
\* without a recurrenceEnd
ExpandOdd ==
  {[events |-> <<ExpandEvent(<<"a">>, Ymd(2026, 1, 5), 0, Str(rec), rend, Num(k))>>,
    startDate |-> Str(r[1]), endDate |-> Str(r[2])] :
     rec \in {S_daily, S_weekly, S_monthly, S_yearly, <<"h", "o", "u", "r", "l", "y">>},
     rend \in {Null, Str(Ymd(2026, 2, 28))},
     k \in {0, -1, -7},
     r \in ExpandRanges}

ExpandInputs == ExpandShort \cup ExpandLong \cup ExpandMixed \cup ExpandOdd

ExpandInit ==
  /\ StoreInit /\ files = <<>> /\ hasAccess = TRUE
  /\ tz \in HostOffsets
  /\ pc = "input" /\ input \in ExpandInputs /\ output = <<>>

ExpandRun ==
  /\ pc = "input"
  /\ LET trace == expandTrace(tz, input.events, input.startDate, input.endDate)
     IN output' = [expanded |-> Flatten(trace),
                   loops |-> [i \in 1..Len(trace) |->
                               [recurring |-> trace[i].recurring,
                                emitted |-> Len(trace[i].loop.instances),
                                current |-> trace[i].loop.current,
                                instanceCount |-> trace[i].loop.instanceCount,
                                passes |-> trace[i].loop.passes,
                                end |-> trace[i].loop.end,
                                recurrenceEnd |-> trace[i].loop.recurrenceEnd]]]
  /\ pc' = "done"
  /\ UNCHANGED <<storeVars, tz, input>>

ExpandSpec == ExpandInit /\ [][ExpandRun]_vars

\* calendar day number and weekday (0 = Sunday) that a date string names
DayNumber(s) == NewDate(Str(s)).t \div 24
Weekday(s) == (DayNumber(s) + 4) % 7

\* the date string of a calendar day number
DayString(day) == formatDate(0, DateAt(24 * day))

\* day numbers s, s + p, s + 2p, ... not after lim, as date strings
OccurrenceDates(s, p, lim) ==
  IF lim < s THEN <<>> ELSE [i \in 1..(((lim - s) \div p) + 1) |-> DayString(s + (i - 1) * p)]

StartDates(list) == [i \in 1..Len(list) |-> list[i].startDate.s]

\* the input is one one-day daily or weekly event that starts inside the query range
\* and has a recurrenceEnd and an interval of at least 1
C3_Case ==
  /\ Len(input.events) = 1
  /\ LET e == input.events[1]
     IN /\ e.recurrence \in {Str(S_daily), Str(S_weekly)}
        /\ e.endDate = e.startDate
        /\ Truthy(e.recurrenceEnd)
        /\ Or(e.recurrenceInterval, Num(1)).n >= 1
        /\ DateLE(NewDate(input.startDate), NewDate(e.startDate))
        /\ DateLE(NewDate(e.startDate), NewDate(input.endDate))

\* C3: a one-day daily or weekly event with startDate s inside the query range [a, b],
\* recurrenceEnd r and interval k >= 1 expands to exactly one instance per occurrence
\* date s, s+p, s+2p, ... up to min(r, b) inclusive (p = k days, or 7k days for
\* weekly), and to nothing else.
C3_OneInstancePerOccurrence ==
  (pc = "done" /\ C3_Case) =>
    LET e == input.events[1]
        k == Or(e.recurrenceInterval, Num(1)).n
        p == IF e.recurrence = Str(S_daily) THEN k ELSE 7 * k
        r == DayNumber(e.recurrenceEnd.s)
        b == DayNumber(input.endDate.s)
    IN StartDates(output.expanded)
         = OccurrenceDates(DayNumber(e.startDate.s), p, IF r < b THEN r ELSE b)

\* C4: expansion of a recurring event (daily, weekly, monthly or yearly) stops only
\* when the cursor exceeds the query end or the recurrence ceiling, or when 365
\* instances have been generated: if it ends with the cursor still <= query end and
\* <= recurrenceEnd, exactly 365 instances were emitted; never more than 365 are.
C4_StopsOnlyAtBoundsOrCap ==
  pc = "done" =>
    \A i \in 1..Len(output.loops) :
      (output.loops[i].recurring /\ Recognised(input.events[i].recurrence)) =>
        /\ output.loops[i].emitted <= maxInstances
        /\ (DateLE(output.loops[i].current, output.loops[i].end)
            /\ DateLE(output.loops[i].current, output.loops[i].recurrenceEnd))
           => output.loops[i].emitted = maxInstances

----------------------------------------------------------------------------
(* Runs of getSwedishHolidays on enumerated years *)

MinYear == 1900
MaxYear == 2100

HolidayInit ==
  /\ StoreInit /\ files = <<>> /\ hasAccess = TRUE
  /\ tz \in HostOffsets
  /\ pc = "input" /\ input \in MinYear..MaxYear /\ output = <<>>

HolidayRun ==
  /\ pc = "input"
  /\ output' = getSwedishHolidays(tz, input)
  /\ pc' = "done"
  /\ UNCHANGED <<storeVars, tz, input>>

HolidaySpec == HolidayInit /\ [][HolidayRun]_vars

HolidayNames ==
  {"New Year's Day", "Epiphany", "May Day", "National Day of Sweden", "Christmas Day",
   "Second Day of Christmas", "Good Friday", "Easter Sunday", "Easter Monday",
   "Ascension Day", "Whit Sunday", "Midsummer Day", "All Saints' Day"}

HasHoliday(hs, name) == \E i \in 1..Len(hs) : hs[i].name = name
HolidayDate(hs, name) == hs[CHOOSE i \in 1..Len(hs) : hs[i].name = name].date

\* C6: for every year getSwedishHolidays returns exactly 13 holidays: the six fixed
\* dates, the five Easter offsets, Midsummer Day as the Saturday in June 20-26 and
\* All Saints' Day as the Saturday in October 31 - November 6 (the scan always
\* finds one), in ascending date order.
C6_ThirteenHolidaysSorted ==
  pc = "done" =>
    /\ Len(output) = 13
    /\ \A name \in HolidayNames : \E i \in 1..13 : output[i].name = name
    /\ \A i \in 1..12 : ~StringLess(output[i + 1].date, output[i].date)
    /\ \A i \in 1..12 : DayNumber(output[i].date) <= DayNumber(output[i + 1].date)
    /\ HolidayDate(output, "New Year's Day") = Ymd(input, 1, 1)
    /\ HolidayDate(output, "Epiphany") = Ymd(input, 1, 6)
    /\ HolidayDate(output, "May Day") = Ymd(input, 5, 1)
    /\ HolidayDate(output, "National Day of Sweden") = Ymd(input, 6, 6)
    /\ HolidayDate(output, "Christmas Day") = Ymd(input, 12, 25)
    /\ HolidayDate(output, "Second Day of Christmas") = Ymd(input, 12, 26)
    /\ Weekday(HolidayDate(output, "Midsummer Day")) = 6
    /\ DayNumber(HolidayDate(output, "Midsummer Day"))
         \in DayNumber(Ymd(input, 6, 20))..DayNumber(Ymd(input, 6, 26))
    /\ Weekday(HolidayDate(output, "All Saints' Day")) = 6
    /\ DayNumber(HolidayDate(output, "All Saints' Day"))
         \in DayNumber(Ymd(input, 10, 31))..DayNumber(Ymd(input, 11, 6))

\* a year whose Midsummer Saturday is the last day of the scanned window
C6_Witness ==
  /\ pc = "done"
  /\ HasHoliday(output, "Midsummer Day")
  /\ HolidayDate(output, "Midsummer Day") = Ymd(input, 6, 26)
  /\ Len(output) = 13

EasterTable ==
  (2020 :> Ymd(2020, 4, 12)) @@ (2021 :> Ymd(2021, 4, 4)) @@ (2022 :> Ymd(2022, 4, 17))
  @@ (2023 :> Ymd(2023, 4, 9)) @@ (2024 :> Ymd(2024, 3, 31)) @@ (2025 :> Ymd(2025, 4, 20))
  @@ (2026 :> Ymd(2026, 4, 5)) @@ (2027 :> Ymd(2027, 3, 28))

\* C7: Easter Sunday is 2020-04-12, 2021-04-04, 2022-04-17, 2023-04-09, 2024-03-31,
\* 2025-04-20, 2026-04-05 and 2027-03-28, and Good Friday, Easter Monday, Ascension
\* and Whit Sunday are Easter Sunday shifted by -2, +1, +39 and +49 days.
C7_EasterDates ==
  pc = "done" =>
    /\ input \in DOMAIN EasterTable => HolidayDate(output, "Easter Sunday") = EasterTable[input]
    /\ LET easter == DayNumber(HolidayDate(output, "Easter Sunday"))
       IN /\ Weekday(HolidayDate(output, "Easter Sunday")) = 0
          /\ DayNumber(HolidayDate(output, "Good Friday")) = easter - 2
          /\ DayNumber(HolidayDate(output, "Easter Monday")) = easter + 1
          /\ DayNumber(HolidayDate(output, "Ascension Day")) = easter + 39
          /\ DayNumber(HolidayDate(output, "Whit Sunday")) = easter + 49

\* the March Easter of 2024, with Good Friday two days before it
C7_Witness ==
  /\ pc = "done" /\ input = 2024
  /\ HolidayDate(output, "Easter Sunday") = Ymd(2024, 3, 31)
  /\ HolidayDate(output, "Good Friday") = Ymd(2024, 3, 29)
----------------------------------------------------------------------------
(* Round trips of the frontmatter codec on enumerated valid events *)

EventFields ==
  {"id", "title", "startDate", "endDate", "allDay", "startTime", "endTime", "color", "type",
   "recurrence", "recurrenceEnd", "recurrenceInterval", "description"}

T_0900 == <<"0", "9", ":", "0", "0">>
T_1000 == <<"1", "0", ":", "0", "0">>

CodecTitles ==
  {<<"T", "e", "a", "m">>, <<"a", "\"", "b">>, <<"4", "2">>, S_true, S_false}

\* valid events: a non-empty title, endDate >= startDate, times only when not all-day,
\* a known type and recurrence, a positive interval
CodecEvents ==
  {[id |-> Str(<<"e", "1">>), title |-> Str(title), startDate |-> Str(Ymd(2026, 1, 15)),
    endDate |-> Str(endDate), allDay |-> Bool(times[1]), startTime |-> times[2],
    endTime |-> times[3], color |-> Str(TypeColor(type)), type |-> Str(type),
    recurrence |-> Str(rec[1]), recurrenceEnd |-> rec[2], recurrenceInterval |-> Num(rec[3]),
    description |-> Str(description)] :
     title \in CodecTitles,
     endDate \in {Ymd(2026, 1, 15), Ymd(2026, 1, 17)},
     times \in {<<TRUE, Null, Null>>, <<FALSE, Str(T_0900), Str(T_1000)>>,
                <<FALSE, Str(T_0900), Null>>},
     type \in {S_personal, S_work},
     rec \in {<<S_none, Null, 1>>, <<S_daily, Null, 1>>, <<S_weekly, Str(Ymd(2026, 2, 28)), 2>>},
     description \in {<<>>, <<"h", "i">>}}

\* what loadAllEvents rebuilds from the file createEvent/updateEvent would write for e
roundTrip(e) ==
  LET parsed == parseMarkdown(serializeEvent(e))
  IN loadedEvent(parsed.frontmatter, parsed.body, generateFilename(e), <<"n", "e", "w">>)

CodecInit ==
  /\ StoreInit /\ files = <<>> /\ hasAccess = TRUE
  /\ tz = 0
  /\ pc = "input" /\ input \in CodecEvents /\ output = <<>>

CodecRun ==
  /\ pc = "input"
  /\ output' = [text |-> serializeEvent(input), event |-> roundTrip(input)]
  /\ pc' = "done"
  /\ UNCHANGED <<storeVars, tz, input>>

CodecSpec == CodecInit /\ [][CodecRun]_vars

\* C2: for any valid event e, parseMarkdown(serializeEvent(e)) followed by the
\* load-time defaults reproduces every explicit field of e exactly, also when the
\* title contains double quotes or consists of digits or of the word true or false.
C2_RoundTrip ==
  pc = "done" => \A f \in EventFields : output.event[f] = input[f]
----------------------------------------------------------------------------
(* Map and directory primitives *)

\* position of key k in the insertion-ordered Map m, 0 when absent
MapIndex(m, k) ==
  LET at == {i \in 1..Len(m) : m[i].key = k}
  IN IF at = {} THEN 0 ELSE Min(at)

MapHas(m, k) == MapIndex(m, k) # 0

MapGetOrBlank(m, k) == IF MapHas(m, k) THEN m[MapIndex(m, k)].value ELSE [blank |-> Bool(TRUE)]
\* Map.prototype.get: the value, or undefined
MapGet(m, k) == IF MapHas(m, k) THEN m[MapIndex(m, k)].value ELSE Undefined

\* Map.prototype.set: an existing key keeps its position, a new key goes last
MapSet(m, k, v) ==
  IF MapHas(m, k) THEN [m EXCEPT ![MapIndex(m, k)] = [key |-> k, value |-> v]]
  ELSE Append(m, [key |-> k, value |-> v])

MapDelete(m, k) == SelectSeq(m, LAMBDA entry : entry.key # k)

\* Array.from(map.values())
MapValues(m) == [i \in 1..Len(m) |-> m[i].value]

MapKeys(m) == {m[i].key : i \in 1..Len(m)}

\* the directory is a sequence of [name, content] entries in listing order
fileIndex(fs, name) ==
  LET at == {i \in 1..Len(fs) : fs[i].name = name}
  IN IF at = {} THEN 0 ELSE Min(at)

\* FileSystemService.listFiles: the names ending in .md
listFiles(fs) ==
  LET md == SelectSeq(fs, LAMBDA entry : endsWith(entry.name, S_md))
  IN [i \in 1..Len(md) |-> md[i].name]

\* FileSystemService.readFile: the text, or null when the file is missing
readFile(fs, name) ==
  IF fileIndex(fs, name) = 0 THEN Null ELSE Str(fs[fileIndex(fs, name)].content)

\* FileSystemService.writeFile: create or overwrite
writeFile(fs, name, content) ==
  IF fileIndex(fs, name) = 0 THEN Append(fs, [name |-> name, content |-> content])
  ELSE [fs EXCEPT ![fileIndex(fs, name)] = [name |-> name, content |-> content]]

\* the directory-handle calls that can fail
FaultKinds == {"getFileHandle", "write", "removeEntry"}

\* writeFile rejects: the handle cannot be opened, or the content cannot be written
writeFileThrows(kinds) == "getFileHandle" \in kinds \/ "write" \in kinds

\* the directory after a rejected writeFile: getFileHandle({create: true}) has made an
\* empty file when it succeeded and the file was not there; nothing is committed
writeFileFailed(fs, name, kinds) ==
  IF "getFileHandle" \in kinds \/ fileIndex(fs, name) # 0 THEN fs
  ELSE Append(fs, [name |-> name, content |-> <<>>])

\* deleteFile rejects: removeEntry fails with an error other than NotFoundError
deleteFileThrows(kinds) == "removeEntry" \in kinds

deleteFileKept(fs, name) == fs
\* FileSystemService.deleteFile: a missing file is not an error
deleteFile(fs, name) == SelectSeq(fs, LAMBDA entry : entry.name # name)

----------------------------------------------------------------------------
(* CalendarService: the bodies of the handlers *)

\* generateId: a fresh identifier of hex digits and hyphens; n-th call, k-th draw
generateId(n, k) == <<"c">> \o NatToString(n) \o <<"-">> \o NatToString(k)

RECURSIVE loadFilesAborting(_, _, _, _, _)
loadFilesAborting(fs, names, evs, n, failing) ==
  IF names = <<>> \/ names[1] \in failing THEN evs
  ELSE LET filename == names[1]
           content == readFile(fs, filename)
           parsed == parseMarkdown(content.s)
           event == loadedEvent(parsed.frontmatter, parsed.body, filename,
                                generateId(n, Len(names)))
       IN loadFilesAborting(fs, Tail(names),
                            IF Truthy(content) /\ Truthy(event.startDate)
                            THEN MapSet(evs, event.id, event) ELSE evs,
                            n, failing)
\* the for loop of loadAllEvents over the listed names, filling the Map evs; the read
\* of a file in `failing' throws, which the catch of that iteration logs
RECURSIVE loadFiles(_, _, _, _, _)
loadFiles(fs, names, evs, n, failing) ==
  IF names = <<>> THEN evs
  ELSE LET filename == names[1]
           content == readFile(fs, filename)
           parsed == parseMarkdown(content.s)
           event == loadedEvent(parsed.frontmatter, parsed.body, filename,
                                generateId(n, Len(names)))
       IN loadFiles(fs, Tail(names),
                    IF filename \notin failing /\ Truthy(content) /\ Truthy(event.startDate)
                    THEN MapSet(evs, event.id, event) ELSE evs,
                    n, failing)

\* events.filter(e => this.enabledTypes.has(e.type || 'personal'))
getAllEvents(evs, enabled) ==
  SelectSeq(MapValues(evs),
            LAMBDA e : LET type == Or(Get(e, "type"), Str(S_personal))
                       IN type.t = "str" /\ type.s \in enabled)

\* a >= b on strings
StringGE(a, b) == ~StringLess(a, b)

S_holiday_ == <<"h", "o", "l", "i", "d", "a", "y", "_">>

\* the projection of one holiday (its display title h.nameSv is not carried)
holidayEvent(h) ==
  [id |-> Str(S_holiday_ \o h.date), startDate |-> Str(h.date), endDate |-> Str(h.date),
   allDay |-> Bool(TRUE), color |-> Str(TypeColor(S_holiday)), type |-> Str(S_holiday),
   _isHoliday |-> Bool(TRUE), _englishName |-> h.name]

\* the holidays of the years from..to that fall inside [startDate, endDate]
RECURSIVE holidaysOfYears(_, _, _, _, _)
holidaysOfYears(off, year, endYear, startDate, endDate) ==
  IF year > endYear THEN <<>>
  ELSE LET inRange == SelectSeq(getSwedishHolidays(off, year),
                                LAMBDA h : StringGE(h.date, startDate) /\ StringGE(endDate, h.date))
       IN [i \in 1..Len(inRange) |-> holidayEvent(inRange[i])]
          \o holidaysOfYears(off, year + 1, endYear, startDate, endDate)

\* parseInt(s.substring(0, 4)) for a string that starts with digits
yearOf(s) == parseInt(SubSeq(s, 1, 4))

getHolidayEventsFlagOnly(off, show, enabled, startDate, endDate) ==
  IF ~show THEN <<>>
  ELSE holidaysOfYears(off, yearOf(startDate), yearOf(endDate), startDate, endDate)
\* getHolidayEvents: nothing unless the flag is on and the holiday type is enabled
getHolidayEvents(off, show, enabled, startDate, endDate) ==
  IF ~show \/ S_holiday \notin enabled THEN <<>>
  ELSE holidaysOfYears(off, yearOf(startDate), yearOf(endDate), startDate, endDate)

overlapsStrictly(event, start, end) ==
  LET eventStart == NewDate(Get(event, "startDate"))
      eventEnd == NewDate(Or(Get(event, "endDate"), Get(event, "startDate")))
  IN eventStart.valid /\ eventEnd.valid /\ start.valid /\ end.valid
     /\ eventStart.t < end.t /\ eventEnd.t > start.t
\* the filter of getEventsForRange: eventStart <= end && eventEnd >= start
overlaps(event, start, end) ==
  LET eventStart == NewDate(Get(event, "startDate"))
      eventEnd == NewDate(Or(Get(event, "endDate"), Get(event, "startDate")))
  IN DateLE(eventStart, end) /\ DateGE(eventEnd, start)

getEventsForRange(off, evs, enabled, show, startDate, endDate) ==
  LET start == NewDate(Str(startDate))
      end == NewDate(Str(endDate))
      base == SelectSeq(getAllEvents(evs, enabled), LAMBDA event : overlaps(event, start, end))
  IN expandRecurringEvents(off, base, Str(startDate), Str(endDate))
     \o getHolidayEvents(off, show, enabled, startDate, endDate)

\* EVENT_TYPES[eventData.type || 'personal'].color reads .color of undefined for an unknown type
createdEventThrows(eventData) ==
  /\ ~Truthy(Get(eventData, "color"))
  /\ TemplateString(Or(Get(eventData, "type"), Str(S_personal))) \notin EVENT_TYPES

\* the event object createEvent builds from its argument
createdEvent(eventData, id) ==
  LET type == Or(Get(eventData, "type"), Str(S_personal))
  IN [id |-> Str(id),
      title |-> Or(Get(eventData, "title"), Str(S_Untitled)),
      startDate |-> Get(eventData, "startDate"),
      endDate |-> Or(Get(eventData, "endDate"), Get(eventData, "startDate")),
      startTime |-> IF Truthy(Get(eventData, "allDay")) THEN Null
                    ELSE Or(Get(eventData, "startTime"), Null),
      endTime |-> IF Truthy(Get(eventData, "allDay")) THEN Null
                  ELSE Or(Get(eventData, "endTime"), Null),
      allDay |-> Bool(Get(eventData, "allDay") # Bool(FALSE)),
      color |-> IF Truthy(Get(eventData, "color")) THEN Get(eventData, "color")
                ELSE Str(TypeColor(TemplateString(type))),
      type |-> type,
      recurrence |-> Or(Get(eventData, "recurrence"), Str(S_none)),
      recurrenceEnd |-> Or(Get(eventData, "recurrenceEnd"), Null),
      recurrenceInterval |-> Or(Get(eventData, "recurrenceInterval"), Num(1)),
      description |-> Or(Get(eventData, "description"), Str(<<>>))]

\* id.includes('_') ? id.split('_')[0] : id, for a string id
originalId(id) == IF indexOf(id.s, "_") >= 0 THEN Str(split(id.s, "_")[1]) ELSE id

\* the merged object of updateEvent, with its consistency step
updatedEventPatchId(existing, eventData, id) ==
  LET event == Spread(existing, eventData)
  IN IF Truthy(Get(event, "allDay"))
     THEN Spread(event, [startTime |-> Null, endTime |-> Null]) ELSE event
\* updateEvent's merge: existing fields, then the patch, then the original id
updatedEvent(existing, eventData, id) ==
  LET event == Spread(Spread(existing, eventData), [id |-> id])
  IN IF Truthy(Get(event, "allDay"))
     THEN Spread(event, [startTime |-> Null, endTime |-> Null]) ELSE event

----------------------------------------------------------------------------
(* The event store as a state machine *)

MaxCalls == 3

\* the events directory the user hands to the application
FileLunch ==
  [name |-> <<"2", "0", "2", "6", "-", "0", "1", "-", "1", "0", "-", "l", "u", "n", "c", "h", ".", "m", "d">>,
   content |-> <<"-", "-", "-", "\n", "i", "d", ":", " ", "\"", "a", "_", "b", "\"", "\n", "t", "i", "t", "l", "e", ":", " ", "\"", "L", "u", "n", "c", "h", "\"", "\n", "s", "t", "a", "r", "t", "D", "a", "t", "e", ":", " ", "\"", "2", "0", "2", "6", "-", "0", "1", "-", "1", "0", "\"", "\n", "e", "n", "d", "D", "a", "t", "e", ":", " ", "\"", "2", "0", "2", "6", "-", "0", "1", "-", "1", "2", "\"", "\n", "a", "l", "l", "D", "a", "y", ":", " ", "t", "r", "u", "e", "\n", "c", "o", "l", "o", "r", ":", " ", "\"", "#", "3", "b", "8", "2", "f", "6", "\"", "\n", "t", "y", "p", "e", ":", " ", "\"", "w", "o", "r", "k", "\"", "\n", "-", "-", "-", "\n">>]

FileOdd ==
  [name |-> <<"2", "0", "2", "6", "-", "0", "1", "-", "2", "0", "-", "o", "d", "d", ".", "m", "d">>,
   content |-> <<"-", "-", "-", "\n", "i", "d", ":", " ", "\"", "4", "2", "\"", "\n", "t", "i", "t", "l", "e", ":", " ", "\"", "O", "d", "d", "\"", "\n", "s", "t", "a", "r", "t", "D", "a", "t", "e", ":", " ", "\"", "2", "0", "2", "6", "-", "0", "1", "-", "2", "0", "\"", "\n", "e", "n", "d", "D", "a", "t", "e", ":", " ", "\"", "2", "0", "2", "6", "-", "0", "1", "-", "2", "1", "\"", "\n", "a", "l", "l", "D", "a", "y", ":", " ", "t", "r", "u", "e", "\n", "e", "n", "d", "T", "i", "m", "e", ":", " ", "\"", "1", "0", ":", "0", "0", "\"", "\n", "-", "-", "-", "\n", "b", "y", " ", "h", "a", "n", "d">>]

FileDentist ==
  [name |-> <<"2", "0", "2", "6", "-", "0", "1", "-", "1", "3", "-", "d", "e", "n", "t", "i", "s", "t", ".", "m", "d">>,
   content |-> <<"-", "-", "-", "\n", "i", "d", ":", " ", "\"", "e", "1", "\"", "\n", "t", "i", "t", "l", "e", ":", " ", "\"", "D", "e", "n", "t", "i", "s", "t", "\"", "\n", "s", "t", "a", "r", "t", "D", "a", "t", "e", ":", " ", "\"", "2", "0", "2", "6", "-", "0", "1", "-", "1", "3", "\"", "\n", "e", "n", "d", "D", "a", "t", "e", ":", " ", "\"", "2", "0", "2", "6", "-", "0", "1", "-", "1", "4", "\"", "\n", "a", "l", "l", "D", "a", "y", ":", " ", "f", "a", "l", "s", "e", "\n", "s", "t", "a", "r", "t", "T", "i", "m", "e", ":", " ", "\"", "0", "9", ":", "0", "0", "\"", "\n", "e", "n", "d", "T", "i", "m", "e", ":", " ", "\"", "1", "0", ":", "0", "0", "\"", "\n", "c", "o", "l", "o", "r", ":", " ", "\"", "#", "8", "b", "5", "c", "f", "6", "\"", "\n", "t", "y", "p", "e", ":", " ", "\"", "p", "e", "r", "s", "o", "n", "a", "l", "\"", "\n", "-", "-", "-", "\n", "\n", "b", "r", "i", "n", "g", " ", "c", "a", "r", "d">>]

FileFlag ==
  [name |-> <<"2", "0", "2", "6", "-", "0", "6", "-", "0", "6", "-", "f", "l", "a", "g", ".", "m", "d">>,
   content |-> <<"-", "-", "-", "\n", "i", "d", ":", " ", "\"", "h", "o", "l", "i", "d", "a", "y", "\"", "\n", "t", "i", "t", "l", "e", ":", " ", "\"", "F", "l", "a", "g", "\"", "\n", "s", "t", "a", "r", "t", "D", "a", "t", "e", ":", " ", "\"", "2", "0", "2", "6", "-", "0", "6", "-", "0", "6", "\"", "\n", "a", "l", "l", "D", "a", "y", ":", " ", "t", "r", "u", "e", "\n", "c", "o", "l", "o", "r", ":", " ", "\"", "#", "8", "b", "5", "c", "f", "6", "\"", "\n", "t", "y", "p", "e", ":", " ", "\"", "p", "e", "r", "s", "o", "n", "a", "l", "\"", "\n", "-", "-", "-", "\n">>]

FileNotes == [name |-> <<"n", "o", "t", "e", "s", ".", "m", "d">>, content |-> <<"t", "o", "d", "o">>]

FileText == [name |-> <<"a", ".", "t", "x", "t">>, content |-> <<"x">>]

InitialDirectory == <<FileLunch, FileOdd, FileDentist, FileFlag, FileNotes, FileText>>

\* arguments of createEvent
CreateInputs ==
  {[title |-> Str(<<"T", "e", "a", "m">>), startDate |-> Str(Ymd(2026, 1, 15)), startTime |-> Str(T_0900)],
   [title |-> Str(<<"T", "r", "i", "p">>), startDate |-> Str(Ymd(2026, 1, 15)), endDate |-> Str(Ymd(2026, 1, 10)),
    allDay |-> Bool(TRUE), startTime |-> Null, endTime |-> Null, type |-> Str(S_holiday)],
   [title |-> Str(<<"G", "y", "m">>), startDate |-> Str(Ymd(2026, 1, 20)), endDate |-> Str(Ymd(2026, 1, 22)),
    allDay |-> Bool(FALSE), startTime |-> Str(T_0900), endTime |-> Str(T_1000),
    type |-> Str(S_work), recurrence |-> Str(S_weekly), recurrenceInterval |-> Num(1)]}

\* patches of updateEvent
UpdatePatches ==
  {[title |-> Str(<<"M", "o", "v", "e", "d">>), allDay |-> Bool(TRUE)],
   [startDate |-> Str(Ymd(2026, 3, 1)), id |-> Str(<<"o", "t", "h", "e", "r">>)],
   [allDay |-> Bool(FALSE), startTime |-> Str(T_0900), endTime |-> Str(T_1000)]}

S_instanceDate == <<"_", "2", "0", "2", "6", "-", "0", "2", "-", "0", "1">>

\* ids a caller holds: the id of a stored event, the id of one of its recurrence
\* instances, the id of a holiday projection, or an id that was never stored
IdArguments(evs) ==
  MapKeys(evs) \cup {Str(TemplateString(k) \o S_instanceDate) : k \in MapKeys(evs)}
    \cup {Str(<<"z", "z">>), Str(S_holiday_ \o Ymd(2026, 6, 6))}

ToggleTypes == {S_work, S_holiday}

toggledOff(enabled, type) == enabled \ {type}
\* the enabled-type set after toggleEventType(type)
toggled(enabled, type) ==
  IF type \in enabled THEN enabled \ {type} ELSE enabled \cup {type}

\* callbacks handed to addListener; the faulty one throws whenever it is called
Listeners == {"view", "faulty"}
ThrowingListeners == {"faulty"}

QueryRanges ==
  {[start |-> Ymd(2026, 1, 12), end |-> Ymd(2026, 1, 15)],
   [start |-> Ymd(2026, 1, 13), end |-> Ymd(2026, 1, 14)],
   [start |-> Ymd(2026, 6, 1), end |-> Ymd(2026, 6, 30)]}

\* what a call did: result is the returned value (for an event, its id), list the
\* returned array
Outcome(op, id, arg, threw, error, result, list) ==
  [op |-> op, id |-> id, arg |-> arg, threw |-> threw, error |-> error, result |-> result,
   list |-> list]

notifyUntilThrow(ls, handed) ==
  LET stop == {i \in 1..Len(ls) : ls[i] \in ThrowingListeners}
      n == IF stop = {} THEN Len(ls) ELSE Min(stop)
  IN [i \in 1..n |-> [to |-> ls[i], events |-> handed]]
\* notifyListeners: every listener is called with getAllEvents(); what a listener
\* throws is caught and logged
notifyListeners(ls, handed) == [i \in 1..Len(ls) |-> [to |-> ls[i], events |-> handed]]

\* this.notifyListeners() once the Map is evs and the enabled types are enabled
Broadcast(evs, enabled) ==
  /\ notified' = notified + 1
  /\ delivered' = notifyListeners(listeners, getAllEvents(evs, enabled))

\* the call ends without reaching notifyListeners
Silent ==
  /\ notified' = notified
  /\ delivered' = <<>>

\* the call throws before it has changed anything
\* a call that ends in an error after the directory has become fs
Failed(op, id, arg, error, fs) ==
  /\ last' = Outcome(op, id, arg, TRUE, error, Undefined, <<>>)
  /\ Silent
  /\ files' = fs
  /\ UNCHANGED events

Rejected(op, id, arg, error) ==
  /\ last' = Outcome(op, id, arg, TRUE, error, Undefined, <<>>)
  /\ Silent
  /\ UNCHANGED <<events, files>>

Init ==
  /\ StoreInit
  /\ files = InitialDirectory
  /\ hasAccess = FALSE
  /\ tz \in HostOffsets
  /\ PureIdle

\* FileSystemService.requestDirectoryAccess: the user picks the directory
requestDirectoryAccess ==
  /\ ~hasAccess
  /\ hasAccess' = TRUE
  /\ UNCHANGED <<events, files, enabledTypes, showHolidays, notified, calls, last, listeners,
               delivered, unreadable, faults, inflight, tz, pureVars>>

loadAllEvents ==
  /\ calls < MaxCalls
  /\ IF ~hasAccess
     THEN /\ events' = <<>>
          /\ Silent
     ELSE /\ events' = loadFiles(files, listFiles(files), <<>>, calls, unreadable)
          /\ Broadcast(loadFiles(files, listFiles(files), <<>>, calls, unreadable), enabledTypes)
  /\ last' = Outcome("loadAllEvents", Null, Null, FALSE, "none", Undefined,
                     IF hasAccess THEN MapValues(events') ELSE <<>>)
  /\ calls' = calls + 1
  /\ UNCHANGED <<files, enabledTypes, showHolidays, hasAccess, listeners, unreadable, faults, inflight, tz, pureVars>>

createEvent ==
  /\ calls < MaxCalls
  /\ \E eventData \in CreateInputs :
       IF createdEventThrows(eventData)
       THEN Rejected("createEvent", Null, eventData, "TypeError")
       ELSE LET event == createdEvent(eventData, generateId(calls, 0))
                filename == generateFilename(event)
                content == serializeEvent(event)
                stored == Spread(event, [_filename |-> Str(filename)])
            IN IF generateFilenameThrows(event) \/ serializeEventThrows(event)
               THEN Rejected("createEvent", Null, eventData, "TypeError")
               ELSE IF ~hasAccess
               THEN Rejected("createEvent", Null, eventData, "No directory access")
               ELSE IF writeFileThrows(faults)
               THEN Failed("createEvent", Null, eventData, "I/O error",
                           writeFileFailed(files, filename, faults))
               ELSE /\ files' = writeFile(files, filename, content)
                    /\ events' = MapSet(events, stored.id, stored)
                    /\ Broadcast(MapSet(events, stored.id, stored), enabledTypes)
                    /\ last' = Outcome("createEvent", Null, eventData, FALSE, "none",
                                       stored.id, <<>>)
  /\ calls' = calls + 1
  /\ UNCHANGED <<enabledTypes, showHolidays, hasAccess, listeners, unreadable, faults, inflight, tz, pureVars>>

updateEvent ==
  /\ calls < MaxCalls
  /\ \E id \in IdArguments(events), eventData \in UpdatePatches :
       IF id.t # "str"
       THEN Rejected("updateEvent", id, eventData, "TypeError")
       ELSE LET existing == MapGet(events, originalId(id))
            IN IF existing = Undefined
               THEN Rejected("updateEvent", id, eventData, "not found")
               ELSE LET oldFilename == Get(existing, "_filename")
                        event == updatedEvent(existing, eventData, originalId(id))
                        newFilename == generateFilename(event)
                        content == serializeEvent(event)
                        written == writeFile(files, newFilename, content)
                        stored == Spread(event, [_filename |-> Str(newFilename)])
                    IN IF generateFilenameThrows(event) \/ serializeEventThrows(event)
                       THEN Rejected("updateEvent", id, eventData, "TypeError")
                       ELSE IF ~hasAccess
                       THEN Rejected("updateEvent", id, eventData, "No directory access")
                       ELSE IF writeFileThrows(faults)
                       THEN Failed("updateEvent", id, eventData, "I/O error",
                                   writeFileFailed(files, newFilename, faults))
                       ELSE IF /\ Truthy(oldFilename) /\ oldFilename # Str(newFilename)
                               /\ deleteFileThrows(faults)
                       THEN Failed("updateEvent", id, eventData, "I/O error", written)
                       ELSE /\ files' = IF Truthy(oldFilename) /\ oldFilename # Str(newFilename)
                                        THEN deleteFile(written, oldFilename.s) ELSE written
                            /\ events' = MapSet(events, stored.id, stored)
                            /\ Broadcast(MapSet(events, stored.id, stored), enabledTypes)
                            /\ last' = Outcome("updateEvent", id, eventData, FALSE, "none",
                                               stored.id, <<>>)
  /\ calls' = calls + 1
  /\ UNCHANGED <<enabledTypes, showHolidays, hasAccess, listeners, unreadable, faults, inflight, tz, pureVars>>

deleteEvent ==
  /\ calls < MaxCalls
  /\ \E id \in IdArguments(events) :
       IF id.t # "str"
       THEN Rejected("deleteEvent", id, Null, "TypeError")
       ELSE LET event == MapGet(events, originalId(id))
            IN IF event = Undefined
               THEN /\ last' = Outcome("deleteEvent", id, Null, FALSE, "none", Bool(FALSE), <<>>)
                    /\ Silent
                    /\ UNCHANGED <<events, files>>
               ELSE IF Truthy(Get(event, "_filename")) /\ ~hasAccess
               THEN Rejected("deleteEvent", id, Null, "No directory access")
               ELSE IF Truthy(Get(event, "_filename")) /\ deleteFileThrows(faults)
               THEN Rejected("deleteEvent", id, Null, "I/O error")
               ELSE /\ files' = IF Truthy(Get(event, "_filename"))
                                THEN deleteFile(files, Get(event, "_filename").s) ELSE files
                    /\ events' = MapDelete(events, originalId(id))
                    /\ Broadcast(MapDelete(events, originalId(id)), enabledTypes)
                    /\ last' = Outcome("deleteEvent", id, Null, FALSE, "none", Bool(TRUE), <<>>)
  /\ calls' = calls + 1
  /\ UNCHANGED <<enabledTypes, showHolidays, hasAccess, listeners, unreadable, faults, inflight, tz, pureVars>>

toggleEventType ==
  /\ calls < MaxCalls
  /\ \E type \in ToggleTypes :
       /\ enabledTypes' = toggled(enabledTypes, type)
       /\ Broadcast(events, toggled(enabledTypes, type))
       /\ last' = Outcome("toggleEventType", Null, Str(type), FALSE, "none", Undefined, <<>>)
  /\ calls' = calls + 1
  /\ UNCHANGED <<events, files, showHolidays, hasAccess, listeners, unreadable, faults, inflight, tz, pureVars>>

toggleHolidays ==
  /\ calls < MaxCalls
  /\ showHolidays' = ~showHolidays
  /\ last' = Outcome("toggleHolidays", Null, Null, FALSE, "none", Undefined, <<>>)
  /\ Broadcast(events, enabledTypes)
  /\ calls' = calls + 1
  /\ UNCHANGED <<events, files, enabledTypes, hasAccess, listeners, unreadable, faults, inflight, tz, pureVars>>

\* a view asks for the events of a range
queryRange ==
  /\ calls < MaxCalls
  /\ \E r \in QueryRanges :
       last' = Outcome("getEventsForRange", Null, r, FALSE, "none", Undefined,
                       getEventsForRange(tz, events, enabledTypes, showHolidays, r.start, r.end))
  /\ calls' = calls + 1
  /\ Silent
  /\ UNCHANGED <<events, files, enabledTypes, showHolidays, hasAccess, listeners, unreadable, faults, inflight, tz,
               pureVars>>

Next ==
  \/ requestDirectoryAccess
  \/ loadAllEvents
  \/ createEvent
  \/ updateEvent
  \/ deleteEvent
  \/ toggleEventType
  \/ toggleHolidays
  \/ queryRange

Spec == Init /\ [][Next]_vars

----------------------------------------------------------------------------
(* Properties of the event store *)

\* the patched fields of the record stored under key k
Patched(evs, k, patch) ==
  MapHas(evs, k) /\ \A f \in DOMAIN patch \ {"id"} : Get(MapGet(evs, k), f) = patch[f]

\* C1: for every stored event with string id X, updateEvent("X_D", patch) and
\* deleteEvent("X_D") act on the stored base event X: the update succeeds, keeps the
\* set of stored ids and leaves X's record patched; the delete removes X and
\* returns true.
C1_CompositeIdActsOnBase ==
  [][\A X \in MapKeys(events) :
       (X.t = "str" /\ calls' = calls + 1 /\ last'.id = Str(X.s \o S_instanceDate))
         => /\ last'.op = "updateEvent"
                 => /\ ~last'.threw
                    /\ MapKeys(events') = MapKeys(events)
                    /\ Patched(events', X, last'.arg)
            /\ last'.op = "deleteEvent"
                 => /\ last'.result = Bool(TRUE)
                    /\ ~MapHas(events', X)]_vars

\* a <= b on strings
StringLE(a, b) == ~StringLess(b, a)

\* the stored events that are not recurring and whose type is enabled
PlainEnabled ==
  {e \in {events[i].value : i \in 1..Len(events)} :
     ~IsRecurring(e) /\ e.type.t = "str" /\ e.type.s \in enabledTypes}

Returned(e) == \E j \in 1..Len(last.list) : last.list[j] = e

\* C5: getEventsForRange(start, end) returns a stored non-recurring event of an enabled
\* type if and only if its startDate <= end and its endDate >= start, both inclusive.
C5_RangeOverlapInclusive ==
  last.op = "getEventsForRange"
    => \A e \in PlainEnabled :
         Returned(e) <=> (StringLE(e.startDate.s, last.arg.end) /\ StringLE(last.arg.start, e.endDate.s))

\* a query returned an event that ends exactly on the range start and one that
\* starts exactly on the range end, and left out one that overlaps nothing
C5_Witness ==
  /\ last.op = "getEventsForRange"
  /\ \E e \in PlainEnabled : e.endDate.s = last.arg.start /\ e.startDate.s # last.arg.start /\ Returned(e)
  /\ \E e \in PlainEnabled : e.startDate.s = last.arg.end /\ Returned(e)
  /\ \E e \in PlainEnabled : ~Returned(e)

\* C8: every stored event with allDay = true has startTime = null and endTime = null.
C8_AllDayHasNoTimes ==
  \A i \in 1..Len(events) :
    events[i].value.allDay = Bool(TRUE)
      => events[i].value.startTime = Null /\ events[i].value.endTime = Null

\* C9: every stored event satisfies endDate >= startDate.
C9_EndNotBeforeStart ==
  \A i \in 1..Len(events) :
    StringLE(TemplateString(events[i].value.startDate), TemplateString(events[i].value.endDate))

\* C10: updateEvent with an id that resolves to no stored base event throws the
\* not-found error and leaves the map and the directory unchanged, with no broadcast.
C10_UpdateMissingRejected ==
  [][(calls' = calls + 1 /\ last'.op = "updateEvent" /\ last'.id.t = "str"
        /\ ~MapHas(events, originalId(last'.id)))
       => /\ last'.threw /\ last'.error = "not found"
          /\ events' = events /\ files' = files /\ notified' = notified]_vars

\* an update of a missing id, plain or composite, was rejected on a non-empty store
C10_Witness ==
  /\ last.op = "updateEvent" /\ last.error = "not found"
  /\ events # <<>>
  /\ indexOf(last.id.s, "_") >= 0

----------------------------------------------------------------------------
(* The event store with subscribers *)

\* addListener(callback)
addListener ==
  /\ calls < MaxCalls
  /\ \E l \in Listeners :
       /\ listeners' = IF \E i \in 1..Len(listeners) : listeners[i] = l THEN listeners
                       ELSE Append(listeners, l)
       /\ last' = Outcome("addListener", Null, l, FALSE, "none", Undefined, <<>>)
  /\ Silent
  /\ calls' = calls + 1
  /\ UNCHANGED <<events, files, enabledTypes, showHolidays, hasAccess, unreadable, faults, inflight, tz, pureVars>>

\* the function addListener returned: this.listeners.delete(callback)
removeListener ==
  /\ calls < MaxCalls
  /\ \E l \in Listeners :
       /\ listeners' = SelectSeq(listeners, LAMBDA x : x # l)
       /\ last' = Outcome("removeListener", Null, l, FALSE, "none", Undefined, <<>>)
  /\ Silent
  /\ calls' = calls + 1
  /\ UNCHANGED <<events, files, enabledTypes, showHolidays, hasAccess, unreadable, faults, inflight, tz, pureVars>>

\* a directory with one event file and one file that is no event
SmallDirectory == <<FileDentist, FileNotes>>

NotifyInit ==
  /\ StoreInit
  /\ files = SmallDirectory
  /\ hasAccess = FALSE
  /\ tz = 0
  /\ PureIdle

NotifyNext ==
  \/ addListener
  \/ removeListener
  \/ requestDirectoryAccess
  \/ loadAllEvents
  \/ createEvent
  \/ updateEvent
  \/ deleteEvent
  \/ toggleEventType
  \/ toggleHolidays
  \/ queryRange

NotifySpec == NotifyInit /\ [][NotifyNext]_vars

----------------------------------------------------------------------------
(* Loads of enumerated directories, with at most one file whose read fails *)

FileNoDate ==
  [name |-> <<"s", "o", "m", "e", "d", "a", "y", ".", "m", "d">>, content |-> <<"-", "-", "-", "\n", "i", "d", ":", " ", "\"", "n", "1", "\"", "\n", "t", "i", "t", "l", "e", ":", " ", "\"", "S", "o", "m", "e", "d", "a", "y", "\"", "\n", "-", "-", "-", "\n", "n", "o", " ", "d", "a", "t", "e", " ", "y", "e", "t">>]

FileBlank == [name |-> <<"b", "l", "a", "n", "k", ".", "m", "d">>, content |-> <<>>]

LoadFiles == <<FileLunch, FileNoDate, FileOdd, FileBlank, FileDentist, FileNotes, FileText>>

\* the directories that hold some of LoadFiles, in that order
LoadDirectories ==
  {SelectSeq(LoadFiles, LAMBDA f : f.name \in {LoadFiles[i].name : i \in S}) :
     S \in SUBSET (1..Len(LoadFiles))}

LoadInit ==
  /\ events = <<>> /\ enabledTypes = EVENT_TYPES /\ showHolidays = TRUE
  /\ notified = 0 /\ calls = 0 /\ last = NoCall
  /\ listeners = <<"view">> /\ delivered = <<>>
  /\ files \in LoadDirectories
  /\ unreadable \in {{}} \cup {{files[i].name} : i \in 1..Len(files)}
  /\ faults = {} /\ inflight = <<>>
  /\ hasAccess \in BOOLEAN
  /\ tz = 0
  /\ PureIdle

LoadNext == loadAllEvents

LoadSpec == LoadInit /\ [][LoadNext]_vars

\* the files of LoadFiles whose frontmatter has a startDate
DatedFiles == {FileLunch.name, FileOdd.name, FileDentist.name}

\* the names of the files a stored event came from
LoadedFrom == {events[i].value._filename.s : i \in 1..Len(events)}

\* C12: a failing read of one file does not abort loadAllEvents: every other listed
\* file that decodes to an event with a startDate is in the map afterwards, and no
\* file without a startDate (or whose read failed) is.
C12_LoadSkipsBadFiles ==
  (last.op = "loadAllEvents" /\ hasAccess)
    => /\ ~last.threw
       /\ LoadedFrom = ({files[i].name : i \in 1..Len(files)} \cap DatedFiles) \ unreadable
       /\ \A i \in 1..Len(events) : Truthy(events[i].value.startDate)

\* a load in which the read of the first dated file failed, a later dated file was
\* loaded, and a file without startDate was listed
C12_Witness ==
  /\ last.op = "loadAllEvents" /\ hasAccess
  /\ unreadable = {FileLunch.name}
  /\ FileDentist.name \in LoadedFrom
  /\ \E i \in 1..Len(files) : files[i].name = FileNoDate.name

----------------------------------------------------------------------------
(* Further properties of the event store *)

DeliveriesTo(l) == {i \in 1..Len(delivered) : delivered[i].to = l}

Subscribed == {listeners[i] : i \in 1..Len(listeners)}

\* C13: every loadAllEvents call makes exactly one listener call per subscriber, and
\* the events handed over are those of the fully loaded map.
C13_LoadNotifiesOnce ==
  last.op = "loadAllEvents"
    => \A l \in Subscribed :
         /\ Cardinality(DeliveriesTo(l)) = 1
         /\ \A i \in DeliveriesTo(l) : delivered[i].events = getAllEvents(events, enabledTypes)

\* C14: without directory access, loadAllEvents, createEvent, and updateEvent and
\* deleteEvent of an existing event fail with the access error.
C14_NoAccessIsSurfaced ==
  [][(/\ calls' = calls + 1
      /\ ~hasAccess
      /\ \/ last'.op \in {"loadAllEvents", "createEvent"}
         \/ /\ last'.op \in {"updateEvent", "deleteEvent"}
            /\ last'.id.t = "str"
            /\ MapHas(events, originalId(last'.id)))
       => last'.threw /\ last'.error = "No directory access"]_vars

\* C15: when a subscriber throws while being notified, every subscriber is still
\* called exactly once for that broadcast and the triggering call ends normally.
C15_ThrowingListenerIsolated ==
  [][notified' = notified + 1
       => /\ \A l \in Listeners :
               Cardinality({i \in 1..Len(delivered') : delivered'[i].to = l})
                 = IF l \in Subscribed THEN 1 ELSE 0
          /\ ~last'.threw
          /\ last'.op \in {"loadAllEvents", "createEvent", "updateEvent", "deleteEvent",
                           "toggleEventType", "toggleHolidays"}]_vars

\* a broadcast in which the throwing subscriber was called before another one, on a
\* call that changed the stored events
C15_Witness ==
  /\ Len(delivered) = 2
  /\ delivered[1].to \in ThrowingListeners
  /\ delivered[2].to \notin ThrowingListeners
  /\ last.op = "createEvent" /\ ~last.threw
  /\ MapHas(events, last.result)

\* type arguments of toggleEventType: the five known types and one that is not known
TypeArguments == EVENT_TYPES \cup {<<"c", "u", "s", "t", "o", "m">>}

\* toggleEventType(t) made twice from the enabled set `enabled' restores it and the
\* result of getAllEvents(); made once on an enabled t, it disables t and hides the
\* events of type t
ToggleRoundTrip(evs, enabled, t) ==
  LET once == toggled(enabled, t)
      twice == toggled(once, t)
      shown == getAllEvents(evs, once)
  IN /\ twice = enabled
     /\ getAllEvents(evs, twice) = getAllEvents(evs, enabled)
     /\ t \in enabled
          => /\ t \notin once
             /\ \A i \in 1..Len(shown) : shown[i].type # Str(t)

\* C16: for any type t and any store state, toggleEventType(t) twice restores the
\* enabled-type set and getAllEvents(); a single toggle of an enabled t leaves t
\* disabled and getAllEvents() without events of type t.
C16_ToggleTwiceRestores ==
  [][/\ \A t \in TypeArguments : ToggleRoundTrip(events, enabledTypes, t)
     /\ (calls' = calls + 1 /\ last'.op = "toggleEventType")
          => LET t == last'.arg.s
                 shown == getAllEvents(events', enabledTypes')
             IN /\ events' = events
                /\ (t \in enabledTypes) # (t \in enabledTypes')
                /\ enabledTypes' \ {t} = enabledTypes \ {t}
                /\ t \in enabledTypes => \A i \in 1..Len(shown) : shown[i].type # Str(t)]_vars

\* the type of a stored event was toggled off and the event is hidden from getAllEvents()
C16_Witness ==
  /\ last.op = "toggleEventType"
  /\ last.arg.s \notin enabledTypes
  /\ \E i \in 1..Len(events) : events[i].value.type = last.arg
  /\ Len(getAllEvents(events, enabledTypes)) < Len(events)

\* the Swedish public holidays of 2026
Holidays2026 ==
  {Ymd(2026, 1, 1), Ymd(2026, 1, 6), Ymd(2026, 4, 3), Ymd(2026, 4, 5), Ymd(2026, 4, 6),
   Ymd(2026, 5, 1), Ymd(2026, 5, 14), Ymd(2026, 5, 24), Ymd(2026, 6, 6), Ymd(2026, 6, 20),
   Ymd(2026, 10, 31), Ymd(2026, 12, 25), Ymd(2026, 12, 26)}

\* the events of the latest result that carry the holiday marker
MarkedHoliday ==
  {e \in {last.list[j] : j \in 1..Len(last.list)} : Get(e, "_isHoliday") = Bool(TRUE)}

\* C17: getEventsForRange returns holiday projections (type holiday, marked, all-day,
\* dated inside the range) exactly when the holiday flag is on and the holiday type is
\* enabled; otherwise no marked event is in the result.
C17_HolidaysFollowBothToggles ==
  last.op = "getEventsForRange"
    => /\ \A e \in MarkedHoliday :
            /\ e.type = Str(S_holiday) /\ e.allDay = Bool(TRUE)
            /\ StringLE(last.arg.start, e.startDate.s) /\ StringLE(e.startDate.s, last.arg.end)
       /\ {e.startDate.s : e \in MarkedHoliday}
            = IF showHolidays /\ S_holiday \in enabledTypes
              THEN {d \in Holidays2026 : StringLE(last.arg.start, d) /\ StringLE(d, last.arg.end)}
              ELSE {}

\* a query over June 2026 returned both holidays of that month next to stored events
C17_Witness ==
  /\ last.op = "getEventsForRange"
  /\ showHolidays /\ S_holiday \in enabledTypes
  /\ Cardinality(MarkedHoliday) = 2
  /\ Len(last.list) > 2

----------------------------------------------------------------------------
(* serializeEvent on the events the map can hold *)

\* events as load, createEvent and updateEvent leave them in the map: endDate equal to,
\* after or before startDate; every combination of allDay with present and absent times
SerializeEvents ==
  {[id |-> Str(<<"e", "1">>), title |-> Str(title), startDate |-> Str(Ymd(2026, 1, 15)),
    endDate |-> Str(endDate), allDay |-> Bool(times[1]), startTime |-> times[2],
    endTime |-> times[3], color |-> Str(TypeColor(type)), type |-> Str(type),
    recurrence |-> Str(S_none), recurrenceEnd |-> Null, recurrenceInterval |-> Num(1),
    description |-> Str(<<"h", "i">>)] :
     title \in {<<"T", "e", "a", "m">>, <<"a", "\"", "b">>},
     endDate \in {Ymd(2026, 1, 15), Ymd(2026, 1, 17), Ymd(2026, 1, 14)},
     times \in {<<TRUE, Null, Null>>, <<TRUE, Str(T_0900), Str(T_1000)>>,
                <<FALSE, Str(T_0900), Str(T_1000)>>, <<FALSE, Str(T_0900), Null>>,
                <<FALSE, Null, Str(T_1000)>>, <<FALSE, Null, Null>>},
     type \in {S_personal, S_work}}

SerializeInit ==
  /\ StoreInit /\ files = <<>> /\ hasAccess = TRUE
  /\ tz = 0
  /\ pc = "input" /\ input \in SerializeEvents /\ output = <<>>

SerializeRun ==
  /\ pc = "input"
  /\ output' = serializeEvent(input)
  /\ pc' = "done"
  /\ UNCHANGED <<storeVars, tz, input>>

SerializeSpec == SerializeInit /\ [][SerializeRun]_vars

\* the text has a frontmatter line for the key
HasLine(text, key) ==
  \E i \in 1..Len(split(text, "\n")) : startsWith(split(text, "\n")[i], key \o <<":">>)

\* C18: serializeEvent leaves out the endDate line exactly when endDate equals startDate,
\* and leaves out the startTime and endTime lines exactly when allDay is true.
C18_OmitsExactly ==
  pc = "done"
    => /\ ~HasLine(output, K_endDate) <=> input.endDate = input.startDate
       /\ ~HasLine(output, K_startTime) <=> input.allDay = Bool(TRUE)
       /\ ~HasLine(output, K_endTime) <=> input.allDay = Bool(TRUE)

\* ids of the holiday projections getEventsForRange returns for June 2026
HolidayIds == {Str(S_holiday_ \o Ymd(2026, 6, 6)), Str(S_holiday_ \o Ymd(2026, 6, 20))}

\* C19: updateEvent and deleteEvent called with the id of a holiday projection never
\* change the event map or the directory, whatever is stored; the update is rejected as
\* not found and the delete returns false.
C19_HolidayIdsNotWritable ==
  [][(calls' = calls + 1 /\ last'.id \in HolidayIds)
       => /\ events' = events /\ files' = files
          /\ last'.op = "updateEvent" => last'.threw /\ last'.error = "not found"
          /\ last'.op = "deleteEvent" => last'.result = Bool(FALSE)]_vars

\* C20: no createEvent call, whatever type its input names, leaves a stored event of
\* type 'holiday'.
C20_HolidayNotAssignable ==
  (last.op = "createEvent" /\ ~last.threw)
    => MapGet(events, last.result).type # Str(S_holiday)

----------------------------------------------------------------------------
(* the defaults of createEvent against the defaults of loadAllEvents *)

\* the frontmatter key of an event field
FrontKey(f) ==
  CASE f = "title" -> K_title [] f = "startDate" -> K_startDate [] f = "endDate" -> K_endDate
    [] f = "allDay" -> K_allDay [] f = "startTime" -> K_startTime [] f = "endTime" -> K_endTime
    [] f = "color" -> K_color [] f = "type" -> K_type [] f = "recurrence" -> K_recurrence

\* the frontmatter object parseMarkdown returns for a file whose fields are d
frontmatterOf(d) ==
  [k \in {FrontKey(f) : f \in DOMAIN d} |-> d[CHOOSE f \in DOMAIN d : FrontKey(f) = k]]

DefaultFields ==
  {"title", "endDate", "allDay", "startTime", "endTime", "color", "type", "recurrence",
   "recurrenceEnd", "recurrenceInterval"}

\* field mappings: startDate with any subset of the other fields, allDay true or false
DefaultInputs ==
  LET Full(allDay) ==
        [title |-> Str(<<"T", "e", "a", "m">>), startDate |-> Str(Ymd(2026, 1, 15)),
         endDate |-> Str(Ymd(2026, 1, 17)), allDay |-> Bool(allDay),
         startTime |-> Str(T_0900), endTime |-> Str(T_1000),
         color |-> Str(TypeColor(S_birthday)), type |-> Str(S_work),
         recurrence |-> Str(S_weekly)]
      Optional == {"title", "endDate", "allDay", "startTime", "endTime", "color", "type", "recurrence"}
  IN {[f \in S \cup {"startDate"} |-> Full(allDay)[f]] : S \in SUBSET Optional, allDay \in BOOLEAN}

DefaultsInit ==
  /\ StoreInit /\ files = <<>> /\ hasAccess = TRUE
  /\ tz = 0
  /\ pc = "input" /\ input \in DefaultInputs /\ output = <<>>

DefaultsRun ==
  /\ pc = "input"
  /\ output' = [created |-> createdEvent(input, <<"n", "e", "w">>),
                loaded |-> loadedEvent(frontmatterOf(input), <<>>, <<"f">>, <<"n", "e", "w">>)]
  /\ pc' = "done"
  /\ UNCHANGED <<storeVars, tz, input>>

DefaultsSpec == DefaultsInit /\ [][DefaultsRun]_vars

\* C21: the event createEvent builds from a field mapping and the event loadAllEvents
\* builds from a file with the same frontmatter fields agree on title, endDate, allDay,
\* startTime, endTime, color, type, recurrence, recurrenceEnd and recurrenceInterval.
C21_CreateDefaultsAsLoad ==
  pc = "done" => \A f \in DefaultFields : output.created[f] = output.loaded[f]

----------------------------------------------------------------------------
(* updateEvent between its awaits: calls that overlap *)

MaxInflight == 2

Calls == 1..MaxInflight

RaceId == Str(<<"e", "1">>)

\* a rename by title, a rename by date, and a patch that keeps the filename
RacePatches ==
  {[title |-> Str(<<"M", "o", "v", "e", "d">>)], [startDate |-> Str(Ymd(2026, 3, 1))],
   [color |-> Str(TypeColor(S_work))]}

NotStarted ==
  [pc |-> "idle", arg |-> <<>>, event |-> <<>>, oldFilename |-> Undefined, newFilename |-> <<>>,
   content |-> <<>>, threw |-> FALSE, raced |-> FALSE, alone |-> TRUE, rank |-> 0]

\* the call has started and its file-store calls are not finished
InFileCalls(c) == inflight[c].pc \in {"write", "remove"}

\* the call has started and not returned
InFlight(c) == inflight[c].pc \in {"write", "remove", "finish"}

\* updateEvent up to its first await: the locals it computes from the map
updateLocals(evs, id, eventData) ==
  LET existing == MapGet(evs, originalId(id))
      event == updatedEvent(existing, eventData, originalId(id))
  IN [pc |-> "write", arg |-> eventData, event |-> event,
      oldFilename |-> Get(existing, "_filename"),
      newFilename |-> generateFilename(event), content |-> serializeEvent(event),
      threw |-> FALSE, raced |-> FALSE, alone |-> TRUE, rank |-> 0]

\* a variant that removes the old file whatever its name
afterWriteAlways(oldFilename, newFilename) == "remove"

\* after the write: the old file is removed only if it has another name
afterWrite(oldFilename, newFilename) ==
  IF Truthy(oldFilename) /\ oldFilename # Str(newFilename) THEN "remove" ELSE "finish"

\* the store after the directory has been selected and loaded
RaceInit ==
  /\ StoreInit
  /\ files = SmallDirectory
  /\ hasAccess = TRUE
  /\ tz = 0
  /\ PureIdle

\* updateEvent is called: it reads the map, builds the event and starts the write
updateEventBegin ==
  /\ inflight # <<>>
  /\ \E c \in Calls, eventData \in RacePatches :
       /\ inflight[c].pc = "idle"
       /\ IF MapGet(events, originalId(RaceId)) = Undefined \/ ~hasAccess
          THEN inflight' = [inflight EXCEPT ![c] = [NotStarted EXCEPT !.pc = "done", !.threw = TRUE,
                                                                      !.arg = eventData]]
          ELSE inflight' =
                 [o \in Calls |->
                    IF o = c
                    THEN [updateLocals(events, RaceId, eventData) EXCEPT
                            !.raced = \E x \in Calls \ {c} : InFileCalls(x),
                            !.alone = \A x \in Calls \ {c} : ~InFlight(x)]
                    ELSE [inflight[o] EXCEPT !.raced = @ \/ InFileCalls(o),
                                             !.alone = @ /\ ~InFlight(o)]]
  /\ UNCHANGED <<events, files, enabledTypes, showHolidays, hasAccess, notified, calls, last,
                 listeners, delivered, unreadable, faults, tz, pureVars>>

\* the write of the new file takes effect
updateEventWrite ==
  /\ inflight # <<>>
  /\ \E c \in Calls :
       /\ inflight[c].pc = "write"
       /\ files' = writeFile(files, inflight[c].newFilename, inflight[c].content)
       /\ inflight' = [inflight EXCEPT
                         ![c].pc = afterWrite(inflight[c].oldFilename, inflight[c].newFilename)]
  /\ UNCHANGED <<events, enabledTypes, showHolidays, hasAccess, notified, calls, last,
                 listeners, delivered, unreadable, faults, tz, pureVars>>

\* the removal of the old file takes effect (a missing file is not an error)
updateEventRemove ==
  /\ inflight # <<>>
  /\ \E c \in Calls :
       /\ inflight[c].pc = "remove"
       /\ files' = deleteFile(files, inflight[c].oldFilename.s)
       /\ inflight' = [inflight EXCEPT ![c].pc = "finish"]
  /\ UNCHANGED <<events, enabledTypes, showHolidays, hasAccess, notified, calls, last,
                 listeners, delivered, unreadable, faults, tz, pureVars>>

\* the call resumes after its last await: it replaces the map entry, broadcasts, returns
updateEventFinish ==
  /\ inflight # <<>>
  /\ \E c \in Calls :
       /\ inflight[c].pc = "finish"
       /\ LET stored == Spread(inflight[c].event, [_filename |-> Str(inflight[c].newFilename)])
          IN /\ events' = MapSet(events, stored.id, stored)
             /\ Broadcast(MapSet(events, stored.id, stored), enabledTypes)
             /\ last' = Outcome("updateEvent", RaceId, inflight[c].arg, FALSE, "none",
                                stored.id, <<>>)
       /\ inflight' = [inflight EXCEPT
                         ![c].pc = "done",
                         ![c].rank = 1 + Cardinality({o \in Calls : inflight[o].pc = "done"})]
  /\ calls' = calls + 1
  /\ UNCHANGED <<files, enabledTypes, showHolidays, hasAccess, listeners, unreadable, faults,
                 tz, pureVars>>

\* the directory is loaded once, before any update is called
raceLoad ==
  /\ inflight = <<>>
  /\ calls = 0
  /\ events' = loadFiles(files, listFiles(files), <<>>, calls, unreadable)
  /\ Broadcast(loadFiles(files, listFiles(files), <<>>, calls, unreadable), enabledTypes)
  /\ last' = Outcome("loadAllEvents", Null, Null, FALSE, "none", Undefined, MapValues(events'))
  /\ calls' = calls + 1
  /\ inflight' = [c \in Calls |-> NotStarted]
  /\ UNCHANGED <<files, enabledTypes, showHolidays, hasAccess, listeners, unreadable, faults,
                 tz, pureVars>>

RaceNext ==
  \/ raceLoad
  \/ updateEventBegin
  \/ updateEventWrite
  \/ updateEventRemove
  \/ updateEventFinish

RaceSpec == RaceInit /\ [][RaceNext]_vars

\* the files whose frontmatter carries the id
FilesOf(fs, id) ==
  {fs[i] : i \in {j \in 1..Len(fs) : Get(parseMarkdown(fs[j].content).frontmatter, K_id) = id}}

\* the call that returned last
LastFinished == CHOOSE c \in Calls : \A o \in Calls : inflight[o].rank <= inflight[c].rank

\* C22: when two updateEvent calls for one id overlap and both complete, neither reports
\* an error, the map holds the event of the call that finished last, and the only file
\* for the id is that call's serialization.
C22_LastWriteWins ==
  (/\ inflight # <<>>
   /\ \A c \in Calls : inflight[c].pc = "done"
   /\ \A c \in Calls : inflight[c].raced)
    => /\ \A c \in Calls : ~inflight[c].threw
       /\ LET w == inflight[LastFinished]
          IN /\ MapGet(events, RaceId) = Spread(w.event, [_filename |-> Str(w.newFilename)])
             /\ FilesOf(files, RaceId) = {[name |-> w.newFilename, content |-> w.content]}

\* the directory has a file of that name
HasFile(fs, name) == fileIndex(fs, name) # 0

\* C23: a successful updateEvent leaves the serialization of the updated event in the
\* file named by the recomputed filename and that name in the event's _filename; the
\* file that backed the event before is gone exactly when its name differs from the new
\* one, and it is removed only after the new file has been written.
C23_UpdateRewritesFile ==
  [][inflight # <<>>
       => \A c \in Calls :
            /\ (inflight[c].pc = "finish" /\ inflight'[c].pc = "done" /\ inflight[c].alone)
                 => LET before == MapGet(events, RaceId)
                        after == MapGet(events', RaceId)
                        name == generateFilename(after)
                    IN /\ after._filename = Str(name)
                       /\ HasFile(files', name)
                       /\ readFile(files', name) = Str(serializeEvent(after))
                       /\ HasFile(files', before._filename.s) <=> before._filename = Str(name)
            /\ (inflight[c].pc = "remove" /\ inflight'[c].pc = "finish" /\ inflight[c].alone)
                 => /\ HasFile(files, inflight[c].newFilename)
                    /\ readFile(files, inflight[c].newFilename) = Str(inflight[c].content)
                    /\ ~HasFile(files', inflight[c].oldFilename.s)]_vars

\* one update renamed the file and a later one kept the name
C23_Witness ==
  /\ inflight # <<>>
  /\ \A c \in Calls : inflight[c].pc = "done" /\ inflight[c].alone
  /\ \E c \in Calls : inflight[c].oldFilename = Str(FileDentist.name)
                        /\ inflight[c].oldFilename # Str(inflight[c].newFilename)
                        /\ ~HasFile(files, FileDentist.name)
  /\ \E c \in Calls : inflight[c].oldFilename = Str(inflight[c].newFilename)
                        /\ HasFile(files, inflight[c].newFilename)

\* C24: every key of the event map is the id of the event stored under it, and
\* updateEvent leaves the set of ids as it was, even when its patch names another id.
C24_KeyIsIdAndIdIsKept ==
  [][/\ \A i \in 1..Len(events') : events'[i].key = events'[i].value.id
     /\ (calls' = calls + 1 /\ last'.op = "updateEvent")
          => /\ MapKeys(events') = MapKeys(events)
             /\ ~last'.threw => /\ MapHas(events, last'.result)
                                /\ MapGet(events', last'.result).id = last'.result]_vars

\* an update whose patch carries another id went through
C24_Witness ==
  /\ last.op = "updateEvent" /\ ~last.threw
  /\ "id" \in DOMAIN last.arg /\ last.arg.id # last.result
  /\ MapHas(events, last.result) /\ ~MapHas(events, last.arg.id)
  /\ MapGet(events, last.result).startDate = last.arg.startDate

\* the event has no recurrence: the field is absent, null or 'none'
NonRecurring(e) == Get(e, "recurrence") \in {Undefined, Null, Str(S_none)}

\* position in the input of the event an output entry comes from
SourceIndex(e) ==
  LET from == IF Get(e, "_isRecurrenceInstance") = Bool(TRUE) THEN e._originalId ELSE e.id
  IN CHOOSE i \in 1..Len(input.events) : input.events[i].id = from

\* C25: expandRecurringEvents outputs every input event without recurrence exactly once
\* and unchanged, whatever the query range, and its output follows the order of the
\* input events.
C25_NonRecurringPassThrough ==
  pc = "done"
    => /\ SelectSeq(output.expanded, LAMBDA e : Get(e, "_isRecurrenceInstance") # Bool(TRUE))
            = SelectSeq(input.events, NonRecurring)
       /\ \A i, j \in 1..Len(output.expanded) :
            i < j => SourceIndex(output.expanded[i]) <= SourceIndex(output.expanded[j])

\* a mixed list was expanded: plain events on both sides of the instances of a recurring one
C25_Witness ==
  /\ pc = "done"
  /\ Len(input.events) = 3
  /\ NonRecurring(input.events[1]) /\ ~NonRecurring(input.events[2]) /\ NonRecurring(input.events[3])
  /\ Len(output.expanded) > 3
  /\ output.expanded[1] = input.events[1]
  /\ output.expanded[Len(output.expanded)] = input.events[3]
  /\ input.events[3].startDate.s = Ymd(2025, 6, 1)

\* the map loadAllEvents would build from the directory
Reload(fs) == loadFiles(fs, listFiles(fs), <<>>, 0, {})

\* two maps hold the same events: the same ids with the same field values
SameEvents(a, b) == {a[i] : i \in 1..Len(a)} = {b[i] : i \in 1..Len(b)}

\* C26: after successful createEvent, updateEvent and deleteEvent calls on a loaded
\* store, loadAllEvents rebuilds the map with the same ids and field values. Stated per
\* call: a successful call made while a reload would reproduce the map leaves a state
\* where a reload still reproduces it.
C26_ReloadReproducesMap ==
  [][(/\ calls' = calls + 1
      /\ last'.op \in {"createEvent", "updateEvent", "deleteEvent"}
      /\ ~last'.threw
      /\ SameEvents(events, Reload(files)))
       => SameEvents(events', Reload(files'))]_vars

\* the occurrence dates of a stored daily or weekly event that fall in [start, end]
OccurrencesIn(e, start, end) ==
  LET k == Or(Get(e, "recurrenceInterval"), Num(1)).n
      p == IF e.recurrence = Str(S_daily) THEN k ELSE 7 * k
      b == DayNumber(end)
      r == IF Truthy(Get(e, "recurrenceEnd")) THEN DayNumber(e.recurrenceEnd.s) ELSE b
      all == OccurrenceDates(DayNumber(e.startDate.s), p, IF r < b THEN r ELSE b)
  IN {all[i] : i \in {j \in 1..Len(all) : StringLE(start, all[j])}}

\* C27: for every stored daily or weekly event of an enabled type and every occurrence
\* date d of it inside the queried range, getEventsForRange returns an instance of the
\* event dated d, for any range that starts at or after the event's startDate.
C27_OccurrencesInRangeReturned ==
  last.op = "getEventsForRange"
    => \A i \in 1..Len(events) :
         LET e == events[i].value
         IN (/\ Get(e, "recurrence") \in {Str(S_daily), Str(S_weekly)}
             /\ TemplateString(Or(Get(e, "type"), Str(S_personal))) \in enabledTypes
             /\ StringLE(e.startDate.s, last.arg.start))
              => \A d \in OccurrencesIn(e, last.arg.start, last.arg.end) :
                   \E j \in 1..Len(last.list) :
                     /\ Get(last.list[j], "_originalId") = e.id
                     /\ last.list[j].startDate = Str(d)

----------------------------------------------------------------------------
(* getEventsForRange over the years *)

\* the month of May and the whole year, for each year, on an empty and on a loaded store
QueryInputs ==
  {[events |-> evs, start |-> Ymd(year, span[1], 1), end |-> Ymd(year, span[2], 31)] :
     evs \in {<<>>, loadFiles(InitialDirectory, listFiles(InitialDirectory), <<>>, 0, {})},
     year \in MinYear..MaxYear,
     span \in {<<5, 5>>, <<1, 12>>}}

QueryInit ==
  /\ StoreInit /\ files = <<>> /\ hasAccess = TRUE
  /\ tz \in HostOffsets
  /\ pc = "input" /\ input \in QueryInputs /\ output = <<>>

QueryRun ==
  /\ pc = "input"
  /\ output' = getEventsForRange(tz, input.events, enabledTypes, showHolidays,
                                 input.start, input.end)
  /\ pc' = "done"
  /\ UNCHANGED <<storeVars, tz, input>>

QuerySpec == QueryInit /\ [][QueryRun]_vars

\* C28: the events returned by one getEventsForRange call have pairwise distinct ids,
\* whatever year is queried.
C28_ReturnedIdsDistinct ==
  pc = "done"
    => \A i, j \in 1..Len(output) : i # j => output[i].id # output[j].id

\* C29: expandRecurringEvents ends on every input, with an interval of zero or below,
\* without a recurrenceEnd and with an unknown recurrence value, after at most 365
\* passes of its loop (cursor advances) for each source event.
C29_ExpansionEnds ==
  pc = "done"
    => \A i \in 1..Len(output.loops) : output.loops[i].passes <= maxInstances

\* a daily event with a negative interval and no recurrenceEnd used all 365 passes
C29_Witness ==
  /\ pc = "done"
  /\ Len(input.events) = 1
  /\ input.events[1].recurrence = Str(S_daily)
  /\ input.events[1].recurrenceInterval.n < 0
  /\ input.events[1].recurrenceEnd = Null
  /\ output.loops[1].passes = maxInstances

----------------------------------------------------------------------------
(* The event store on a directory whose handle calls fail *)

FaultInit ==
  /\ events = <<>> /\ enabledTypes = EVENT_TYPES /\ showHolidays = TRUE
  /\ notified = 0 /\ calls = 0 /\ last = NoCall
  /\ listeners = <<"view">> /\ delivered = <<>>
  /\ unreadable = {} /\ inflight = <<>>
  /\ faults \in {{k} : k \in FaultKinds}
  /\ files = SmallDirectory
  /\ hasAccess = FALSE
  /\ tz = 0
  /\ PureIdle

FaultNext ==
  \/ requestDirectoryAccess
  \/ loadAllEvents
  \/ createEvent
  \/ updateEvent
  \/ deleteEvent

FaultSpec == FaultInit /\ [][FaultNext]_vars

\* C30: when a file-store call fails inside createEvent, updateEvent or deleteEvent, the
\* caller gets the error, the map is as before the call, no notification is delivered,
\* and the map and the directory still describe the same events if they did before.
C30_FailedCallChangesNothing ==
  [][(/\ calls' = calls + 1
      /\ last'.op \in {"createEvent", "updateEvent", "deleteEvent"}
      /\ last'.error = "I/O error")
       => /\ last'.threw
          /\ events' = events
          /\ notified' = notified /\ delivered' = <<>>
          /\ SameEvents(events, Reload(files)) => SameEvents(events', Reload(files'))]_vars

====
